---- MODULE Spec2Model ----
(***************************************************************************)
(* A model of the simulation core of highseas: the wind store              *)
(* (store/useWindStore + models/WindModel), the ocean wave height field    *)
(* (components/world/Ocean.tsx), the ship dynamics                         *)
(* (components/ships/Ship.tsx) and the frame loop that drives them         *)
(* (components/world/GameWorld.tsx, App.tsx).                              *)
(*                                                                         *)
(* Numbers are fixed point integers:                                       *)
(*   angles            1e-5 rad        (Pi = 314159)                       *)
(*   Math.random()     thousandths     (0 .. 999)                          *)
(*   fluctuation       thousandths                                         *)
(*   delta, time       milliseconds                                        *)
(*   lengths, heights  1e-4 world units                                    *)
(*   damage            twentieths      (the sliders' step, 0.05)           *)
(***************************************************************************)
EXTENDS Integers, Sequences, FiniteSets, TLC

VARIABLES
    \* useWindStore (WindState)
    direction, strength, speedKnots, fluctuation,
    \* App state: isStormActive, shipDamage, selectedShip; useControls
    isStormActive, shipDamage, selectedShip, controls,
    \* passive effects of the first commit have run
    effectsDone,
    \* Ocean: scene.userData.ocean is registered; the values the function held
    \* by the updateWaveHeightMap ref closes over; oceanState.waveHeightMap
    oceanApi, oceanClosure, waveField,
    \* the frame loop: position in the subscriber list (0: between frames),
    \* the frame's delta, Date.now(), frames run, callbacks run in this frame
    frameIdx, delta, now, frames, frameLog,
    \* Ship: the wind values of its last render, physicsState, isInitialized,
    \* initializationTimeRef, shipRef.position, hullRef.position.y, and the
    \* branch its last useFrame call took
    shipWind, physicsState, isInitialized, initializationTime, shipPos, hullY,
    shipTick,
    \* the Math.random() results the last operation consumed, and its name
    rand, lastOp,
    \* number of store calls or UI events so far (bounds the exploration)
    steps,
    \* arguments and result of a pure function applied on its own
    probe

windVars == <<direction, strength, speedKnots, fluctuation>>
appVars == <<isStormActive, shipDamage, selectedShip, controls>>
oceanVars == <<oceanApi, oceanClosure, waveField>>
frameVars == <<frameIdx, delta, now, frames, frameLog>>
shipVars == <<shipWind, physicsState, isInitialized, initializationTime, shipPos,
              hullY, shipTick>>
vars == <<direction, strength, speedKnots, fluctuation, isStormActive, shipDamage,
          selectedShip, controls, effectsDone, oceanApi, oceanClosure, waveField,
          frameIdx, delta, now, frames, frameLog, shipWind, physicsState,
          isInitialized, initializationTime, shipPos, hullY, shipTick, rand,
          lastOp, steps, probe>>

-----------------------------------------------------------------------------
(* Bounds of the exploration *)

\* store calls in SpecWind
MaxWindOps == 3
\* frames and UI events in Spec
MaxFrames == 3
MaxUiOps == 1

-----------------------------------------------------------------------------
(* Arithmetic of the platform *)

Pi == 314159
TwoPi == 2 * Pi

\* fixed point scale of lengths, heights, velocities and unit vectors
S == 10000

Abs(x) == IF x < 0 THEN -x ELSE x
Min(a, b) == IF a <= b THEN a ELSE b
Max(a, b) == IF a >= b THEN a ELSE b

\* a / b rounded toward zero
QuoT(a, b) == IF a >= 0 THEN a \div b ELSE -((-a) \div b)

\* Vector3.add
Add3(a, b) == << a[1] + b[1], a[2] + b[2], a[3] + b[3] >>

\* floor(sqrt(n)) for n >= 0
RECURSIVE SqrtBits(_, _, _)
SqrtBits(n, r, b) ==
    IF b = 0 THEN r
    ELSE IF (r + b) * (r + b) <= n THEN SqrtBits(n, r + b, b \div 2)
         ELSE SqrtBits(n, r, b \div 2)
ISqrt(n) == SqrtBits(n, 0, 16384)

\* The angle a (1e-5 rad) in whole degrees, 0 .. 359.
Deg(a) == (((a % TwoPi) * 180 + Pi \div 2) \div Pi) % 360

\* Math.sin / Math.cos scaled by S (Bhaskara's approximation on whole degrees;
\* exact at the multiples of 30 degrees).
SinHalf(x) == (4 * x * (180 - x) * S) \div (40500 - x * (180 - x))
SinDeg(d) == IF d <= 180 THEN SinHalf(d) ELSE -SinHalf(d - 180)
Sin(a) == SinDeg(Deg(a))
Cos(a) == SinDeg((Deg(a) + 90) % 360)

\* JavaScript's %: the remainder takes the sign of the dividend.
JsMod(a, n) == IF a >= 0 THEN a % n ELSE -((-a) % n)

-----------------------------------------------------------------------------
(* models/WindModel *)

\* Object.values(WindStrength): the 13 categories in declaration order.
strengths ==
    << "Calm", "LightAir", "LightBreeze", "GentleBreeze", "ModerateBreeze",
       "FreshBreeze", "StrongBreeze", "NearGale", "Gale", "StrongGale",
       "Storm", "ViolentStorm", "Hurricane" >>

WindStrength == { strengths[i] : i \in 1..Len(strengths) }

\* strengths.indexOf(s), 0-based as in the source.
IndexOf(s) == (CHOOSE i \in 1..Len(strengths) : strengths[i] = s) - 1

getWindSpeed(s) ==
    CASE s = "Calm" -> 2
      [] s = "LightAir" -> 5
      [] s = "LightBreeze" -> 9
      [] s = "GentleBreeze" -> 14
      [] s = "ModerateBreeze" -> 19
      [] s = "FreshBreeze" -> 25
      [] s = "StrongBreeze" -> 31
      [] s = "NearGale" -> 37
      [] s = "Gale" -> 44
      [] s = "StrongGale" -> 52
      [] s = "Storm" -> 60
      [] s = "ViolentStorm" -> 68
      [] s = "Hurricane" -> 75
      [] OTHER -> 15

-----------------------------------------------------------------------------
(* store/useWindStore *)

\* randomInRange(min, max) for a draw r in thousandths; min, max in any unit.
randomInRange(r, min, max) == (r * (max - min)) \div 1000 + min

\* getRandomWindStrength for the draw r (thousandths).
getRandomWindStrength(r) ==
    CASE r < 50 -> "Calm"
      [] r >= 50 /\ r < 150 -> "LightAir"
      [] r >= 150 /\ r < 300 -> "LightBreeze"
      [] r >= 300 /\ r < 500 -> "GentleBreeze"
      [] r >= 500 /\ r < 700 -> "ModerateBreeze"
      [] r >= 700 /\ r < 850 -> "FreshBreeze"
      [] r >= 850 /\ r < 920 -> "StrongBreeze"
      [] r >= 920 /\ r < 960 -> "NearGale"
      [] r >= 960 /\ r < 980 -> "Gale"
      [] r >= 980 /\ r < 990 -> "StrongGale"
      [] r >= 990 /\ r < 995 -> "Storm"
      [] r >= 995 /\ r < 998 -> "ViolentStorm"
      [] OTHER -> "Hurricane"


\* set({ direction })
setDirection(d) ==
    /\ direction' = d
    /\ UNCHANGED <<strength, speedKnots, fluctuation>>

\* set({ strength, speedKnots: getWindSpeed(strength) })
setStrength(s) ==
    /\ strength' = s
    /\ speedKnots' = getWindSpeed(s)
    /\ UNCHANGED <<direction, fluctuation>>

\* set({ fluctuation })
setFluctuation(f) ==
    /\ fluctuation' = f
    /\ UNCHANGED <<direction, strength, speedKnots>>

\* The strength step of updateWind for the draws st (rand) and pk (the draw
\* getRandomWindStrength takes), from category s.
stepStrength(s, st, pk) ==
    LET currentIndex == IndexOf(s) IN
    IF st < 350 /\ currentIndex > 0
    THEN strengths[(currentIndex - 1) + 1]
    ELSE IF st < 700 /\ currentIndex < Len(strengths) - 1
         THEN strengths[(currentIndex + 1) + 1]
         ELSE getRandomWindStrength(pk)

\* The gate with <= in place of <.
windGateInclusive(g, dt) == g * 2000 <= fluctuation * dt

\* Math.random() < state.fluctuation * delta * 0.5, for the draw g.
windGate(g, dt) == g * 2000 < fluctuation * dt

\* randomInRange(-0.05, 0.05) * state.fluctuation, in 1e-5 rad, for the draw d.
directionChange(d) ==
    LET r == randomInRange(d, -5000, 5000)
        p == r * fluctuation
    IN  IF p >= 0 THEN p \div 1000 ELSE -((-p) \div 1000)

\* updateWind(dt) with its Math.random() results: g the gate, d the
\* direction perturbation, sg the strength gate, st the step, pk the resample.
updateWind(dt, g, d, sg, st, pk) ==
    IF windGate(g, dt)
    THEN LET newDirection == JsMod(direction + directionChange(d), TwoPi)
             newStrength == IF sg < 10 THEN stepStrength(strength, st, pk)
                            ELSE strength
         IN  /\ direction' = newDirection
             /\ strength' = newStrength
             /\ speedKnots' = getWindSpeed(newStrength)
             /\ UNCHANGED fluctuation
             /\ rand' = IF sg >= 10 THEN <<g, d, sg>>
                        ELSE IF (st < 350 /\ IndexOf(strength) > 0)
                                \/ (st < 700 /\ IndexOf(strength) < Len(strengths) - 1)
                             THEN <<g, d, sg, st>>
                             ELSE <<g, d, sg, st, pk>>
    ELSE /\ UNCHANGED windVars
         /\ rand' = <<g>>

\* randomizeWind() with its Math.random() results in call order: d the
\* direction, pk the strength, pk2 the second getRandomWindStrength() whose
\* speed is stored, f the fluctuation.
randomizeWind(d, pk, pk2, f) ==
    /\ direction' = (d * TwoPi) \div 1000
    /\ strength' = getRandomWindStrength(pk)
    /\ speedKnots' = getWindSpeed(getRandomWindStrength(pk2))
    /\ fluctuation' = randomInRange(f, 100, 400)
    /\ rand' = <<d, pk, pk2, f>>

-----------------------------------------------------------------------------
(* components/world/Ocean.tsx *)

WAVE_RESOLUTION == 40
WAVE_SIZE == 100

\* getWaveScale(strength, isStorm), in hundredths.
getWaveScale(s, isStorm) ==
    LET scale ==
          CASE s = "Calm" -> 20
            [] s \in {"LightAir", "LightBreeze"} -> 40
            [] s \in {"GentleBreeze", "ModerateBreeze"} -> 100
            [] s \in {"FreshBreeze", "StrongBreeze"} -> 180
            [] s \in {"NearGale", "Gale"} -> 250
            [] s \in {"StrongGale", "Storm"} -> 350
            [] s \in {"ViolentStorm", "Hurricane"} -> 500
            [] OTHER -> 100
    IN  IF isStorm THEN (scale * 15) \div 10 ELSE scale

\* getMaxWaveHeight with getWaveScale's storm factor.
getMaxWaveHeightScaleFactor(s, isStorm) ==
    LET height ==
          CASE s = "Calm" -> 500
            [] s = "LightAir" -> 1000
            [] s = "LightBreeze" -> 2000
            [] s = "GentleBreeze" -> 4000
            [] s = "ModerateBreeze" -> 6000
            [] s = "FreshBreeze" -> 8000
            [] s = "StrongBreeze" -> 12000
            [] s = "NearGale" -> 18000
            [] s = "Gale" -> 25000
            [] s = "StrongGale" -> 30000
            [] s = "Storm" -> 40000
            [] s = "ViolentStorm" -> 50000
            [] s = "Hurricane" -> 70000
            [] OTHER -> 5000
    IN  IF isStorm THEN (height * 15) \div 10 ELSE height

\* getMaxWaveHeight(strength, isStorm), in 1e-4 world units.
getMaxWaveHeight(s, isStorm) ==
    LET height ==
          CASE s = "Calm" -> 500
            [] s = "LightAir" -> 1000
            [] s = "LightBreeze" -> 2000
            [] s = "GentleBreeze" -> 4000
            [] s = "ModerateBreeze" -> 6000
            [] s = "FreshBreeze" -> 8000
            [] s = "StrongBreeze" -> 12000
            [] s = "NearGale" -> 18000
            [] s = "Gale" -> 25000
            [] s = "StrongGale" -> 30000
            [] s = "Storm" -> 40000
            [] s = "ViolentStorm" -> 50000
            [] s = "Hurricane" -> 70000
            [] OTHER -> 5000
    IN  IF isStorm THEN (height * 175) \div 100 ELSE height

\* What the body of Ocean binds in one render, and so what a function created
\* in that render closes over: the store's direction (through
\* windDirectionVector) and speedKnots, maxWaveHeight and the isStorm prop.
OceanRender(dir, s, knots, storm) ==
    [ direction |-> dir,
      speedKnots |-> knots,
      maxWaveHeight |-> getMaxWaveHeight(s, storm),
      isStorm |-> storm ]

\* new Float32Array(WAVE_RESOLUTION * WAVE_RESOLUTION): every cell 0.  The
\* array is represented by the inputs of the updateWaveHeightMap call that
\* last filled it; every cell is a function of them (CellHeight).
EmptyField ==
    [ ticked |-> FALSE, time |-> 0, direction |-> 0, speedKnots |-> 0,
      maxWaveHeight |-> 0, isStorm |-> FALSE ]

\* The four wave terms of a cell, scaled by S.  wx, wz: the cell's world
\* coordinates in tenths; t: time in ms; f: the field's inputs.
BaseTerms(wx, wz, t, f) ==
    LET directionFactor == Cos(f.direction) * wx + Sin(f.direction) * wz
        tw == t * f.speedKnots
    IN    (Sin(wx * 1000 + tw + QuoT(directionFactor, 20)) * 5) \div 10
        + (Sin(wz * 1500 + (tw * 7) \div 10) * 3) \div 10
        + (Sin((wx + wz) * 1000 + t * 30) * 2) \div 10
        + Sin((wx + wz) * 4000 + tw * 2) \div 10

\* The three storm terms of a cell (stormFactor 1.5 applied), scaled by S.
StormTerms(wx, wz, t, f) ==
    LET tw == t * f.speedKnots
    IN    (Sin(wx * 6000 + tw * 3) * 3) \div 10
        + (Cos(wz * 7000 + (tw * 5) \div 2) * 225) \div 1000
        + (Sin((wx + wz) * 50000 + t * 400) * 15) \div 100

\* worldX = (x / WAVE_RESOLUTION - 0.5) * WAVE_SIZE for the grid coordinate x,
\* in 1e-4 world units (a multiple of 2.5, so exact).
cellToWorld(x) == (x * WAVE_SIZE * S) \div WAVE_RESOLUTION - (WAVE_SIZE * S) \div 2

\* The height updateWaveHeightMap stores in cell (x, z) for the inputs f.
CellHeight(x, z, f) ==
    LET wx == cellToWorld(x) \div 1000
        wz == cellToWorld(z) \div 1000
        height == BaseTerms(wx, wz, f.time, f)
                  + (IF f.isStorm THEN StormTerms(wx, wz, f.time, f) ELSE 0)
    IN  QuoT(QuoT(height, 10) * f.maxWaveHeight, 1000)

\* updateWaveHeightMap.current(delta): the function the ref was created with,
\* which reads the values of the render that created it, at time t.
updateWaveHeightMap(c, t) ==
    [ ticked |-> TRUE, time |-> t, direction |-> c.direction,
      speedKnots |-> c.speedKnots, maxWaveHeight |-> c.maxWaveHeight,
      isStorm |-> c.isStorm ]

\* oceanState.waveHeightMap[index] of the field f: <<height>>, or << >> for
\* the undefined a read outside the typed array yields.
ReadCell(f, index) ==
    IF index \in 0..(WAVE_RESOLUTION * WAVE_RESOLUTION - 1)
    THEN IF f.ticked
         THEN << CellHeight(index % WAVE_RESOLUTION, index \div WAVE_RESOLUTION, f) >>
         ELSE << 0 >>
    ELSE << >>

\* GridIndex without the clamp to the grid bounds.
GridIndexUnclamped(x, z) ==
    LET halfSize == (WAVE_SIZE * S) \div 2
        cell == (WAVE_SIZE * S) \div WAVE_RESOLUTION
        gridX == (x + halfSize) \div cell
        gridZ == (z + halfSize) \div cell
    IN  gridZ * WAVE_RESOLUTION + gridX

\* GridIndex with the roles of the two grid coordinates exchanged.
GridIndexTransposed(x, z) ==
    LET halfSize == (WAVE_SIZE * S) \div 2
        cell == (WAVE_SIZE * S) \div WAVE_RESOLUTION
        gridX == (x + halfSize) \div cell
        gridZ == (z + halfSize) \div cell
        clampedX == Max(0, Min(WAVE_RESOLUTION - 1, gridX))
        clampedZ == Max(0, Min(WAVE_RESOLUTION - 1, gridZ))
    IN  clampedX * WAVE_RESOLUTION + clampedZ

\* The grid index scene.userData.ocean.getWaveHeight computes for (x, z),
\* both in 1e-4 world units.
GridIndex(x, z) ==
    LET halfSize == (WAVE_SIZE * S) \div 2
        cell == (WAVE_SIZE * S) \div WAVE_RESOLUTION
        gridX == (x + halfSize) \div cell
        gridZ == (z + halfSize) \div cell
        clampedX == Max(0, Min(WAVE_RESOLUTION - 1, gridX))
        clampedZ == Max(0, Min(WAVE_RESOLUTION - 1, gridZ))
    IN  clampedZ * WAVE_RESOLUTION + clampedX

\* scene.userData.ocean.getWaveHeight(x, z)
oceanGetWaveHeight(f, x, z) == ReadCell(f, GridIndex(x, z))

-----------------------------------------------------------------------------
(* models/ShipTypes *)

\* SHIP_STATS; draft and width in tenths.
SHIP_STATS ==
    [ Sloop |->
        [ speed |-> 8, maneuverability |-> 9, cargoCapacity |-> 40,
          draft |-> 25, displacement |-> 150, length |-> 18, width |-> 55 ],
      Frigate |->
        [ speed |-> 6, maneuverability |-> 7, cargoCapacity |-> 80,
          draft |-> 42, displacement |-> 700, length |-> 45, width |-> 120 ],
      Galleon |->
        [ speed |-> 4, maneuverability |-> 3, cargoCapacity |-> 160,
          draft |-> 58, displacement |-> 1500, length |-> 50, width |-> 160 ],
      WarGalleon |->
        [ speed |-> 5, maneuverability |-> 4, cargoCapacity |-> 120,
          draft |-> 60, displacement |-> 1800, length |-> 55, width |-> 180 ],
      PinnaceBrig |->
        [ speed |-> 7, maneuverability |-> 8, cargoCapacity |-> 60,
          draft |-> 32, displacement |-> 280, length |-> 25, width |-> 70 ],
      MerchantBrig |->
        [ speed |-> 5, maneuverability |-> 6, cargoCapacity |-> 100,
          draft |-> 38, displacement |-> 450, length |-> 32, width |-> 90 ] ]

ShipClass == DOMAIN SHIP_STATS

\* createDefaultShipDamage(), in twentieths.
createDefaultShipDamage ==
    [ hullIntegrity |-> 20, sailIntegrity |-> 20, mastIntegrity |-> 20,
      rudderIntegrity |-> 20 ]

-----------------------------------------------------------------------------
(* models/WindModel: helpers the ship uses *)

\* getAngleBetweenWindAndShip(shipHeading, windDirection)
getAngleBetweenWindAndShip(shipHeading, windDirection) ==
    LET normShipHeading == JsMod(shipHeading, TwoPi)
        normWindDirection == JsMod(windDirection, TwoPi)
        angleDiff == Abs(normShipHeading - normWindDirection)
    IN  IF angleDiff > Pi THEN TwoPi - angleDiff ELSE angleDiff

\* angleDegrees <= d, for angleDegrees = angle * (180 / Math.PI)
DegreesAtMost(angle, d) == angle * 180 <= d * Pi

\* getPointOfSailMultiplier with the beam reach and broad reach values
\* exchanged.
getPointOfSailMultiplierSwapped(angle) ==
    IF DegreesAtMost(angle, 30) THEN 1
    ELSE IF DegreesAtMost(angle, 60) THEN 5
    ELSE IF DegreesAtMost(angle, 90) THEN 7
    ELSE IF DegreesAtMost(angle, 120) THEN 9
    ELSE IF DegreesAtMost(angle, 150) THEN 10
    ELSE 6

\* getPointOfSailMultiplier(angleBetweenWindAndShip), in tenths.
getPointOfSailMultiplier(angle) ==
    IF DegreesAtMost(angle, 30) THEN 1
    ELSE IF DegreesAtMost(angle, 60) THEN 5
    ELSE IF DegreesAtMost(angle, 90) THEN 7
    ELSE IF DegreesAtMost(angle, 120) THEN 10
    ELSE IF DegreesAtMost(angle, 150) THEN 9
    ELSE 6

\* windDirectionToVector(direction), scaled by S.
windDirectionToVector(dir) == <<Cos(dir), 0, Sin(dir)>>

-----------------------------------------------------------------------------
(* components/ships/Ship.tsx *)

\* The buoyancy points the effect lays out for the stats st, local
\* coordinates <<x, y, z>> in 1e-4 world units, in push order.
buoyancyPointsFor(st) ==
    LET numPointsLength == Max(4, st.length \div 4)
        numPointsWidth == Max(2, st.width \div 30)
    IN  [ k \in 1..(numPointsLength * numPointsWidth) |->
            LET z == (k - 1) \div numPointsWidth
                x == (k - 1) % numPointsWidth
            IN  << (x * S) \div (numPointsWidth - 1) - S \div 2,
                   -4000,
                   (z * 3 * S) \div (numPointsLength - 1) - (3 * S) \div 2 >> ]

\* The divisors without the Math.max floors on the point counts.
shipDivisorsUnfloored(st) ==
    << st.length \div 4 - 1, st.width \div 30 - 1, st.length, st.width,
       st.cargoCapacity >>

\* The divisors of the ship's code for the stats st: numPointsLength - 1 and
\* numPointsWidth - 1 (the grid positions), stats.length and stats.width
\* (the scales; width in tenths), stats.cargoCapacity (the lateral drift).
shipDivisors(st) ==
    << Max(4, st.length \div 4) - 1, Max(2, st.width \div 30) - 1, st.length,
       st.width, st.cargoCapacity >>

\* The state useState starts physicsState with (rotation[1] = 0).
InitialPhysicsState ==
    [ velocity |-> <<0, 0, 0>>,
      angularVelocity |-> <<0, 0, 0>>,
      buoyancyPoints |-> << >>,
      shipRotation |-> 0,
      sailAngle |-> 0,
      previousSailAngle |-> 0 ]

\* calculateOptimalSailAngle(angleBetweenWindAndShip), in 1e-6.
calculateOptimalSailAngle(angle) ==
    IF DegreesAtMost(angle, 30) THEN 0
    ELSE IF DegreesAtMost(angle, 60) THEN 800000
    ELSE IF DegreesAtMost(angle, 120) THEN 500000
    ELSE IF DegreesAtMost(angle, 150) THEN 200000
    ELSE 0

\* The interval callback's update without its "meaningful change" test.
adjustSailAlways(ps, optimalSailAngle) ==
    LET newAngle == ps.sailAngle + QuoT(optimalSailAngle - ps.sailAngle, 10)
    IN  [ ps EXCEPT !.sailAngle = newAngle, !.previousSailAngle = newAngle ]

\* The update the adjustSailInterval callback queues (sail angles in 1e-6):
\* a tenth of the way to optimalSailAngle when that moves the angle by more
\* than 0.01, else the same state.  The render that follows a change runs
\* the sail effect, which copies sailAngle into previousSailAngle.
adjustSail(ps, optimalSailAngle) ==
    LET newAngle == ps.sailAngle + QuoT(optimalSailAngle - ps.sailAngle, 10)
    IN  IF Abs(newAngle - ps.sailAngle) > 10000
        THEN [ ps EXCEPT !.sailAngle = newAngle, !.previousSailAngle = newAngle ]
        ELSE ps

\* The sail angle the interval leaves once its update changes nothing more,
\* from the angle a toward optimalSailAngle.
RECURSIVE settledSailAngle(_, _)
settledSailAngle(a, optimalSailAngle) ==
    LET next == a + QuoT(optimalSailAngle - a, 10)
    IN  IF Abs(next - a) > 10000 THEN settledSailAngle(next, optimalSailAngle) ELSE a

\* new THREE.Matrix4().makeRotationY(rot) with setPosition(pos)
shipMatrix(rot, pos) == [ c |-> Cos(rot), s |-> Sin(rot), position |-> pos ]

\* point.applyMatrix4(m)
applyMatrix4(pt, m) ==
    << QuoT(pt[1] * m.c + pt[3] * m.s, S) + m.position[1],
       pt[2] + m.position[2],
       QuoT(pt[3] * m.c - pt[1] * m.s, S) + m.position[3] >>

\* v.sub(w)
Sub3(v, w) == << v[1] - w[1], v[2] - w[2], v[3] - w[3] >>

\* Ship's getWaveHeight without its guard on scene.userData.ocean.
getWaveHeightUnguarded(api, f, x, z) == oceanGetWaveHeight(f, x, z)[1]

\* Ship's getWaveHeight(x, z): the ocean API's answer, 0 without the API.
\* (The answer is a number: GridIndex clamps, so no read is undefined.)
getWaveHeight(api, f, x, z) == IF api THEN oceanGetWaveHeight(f, x, z)[1] ELSE 0

\* calculateBuoyancyForce without its hull damage factor.
calculateBuoyancyForceUndamaged(pt, m, st, dmg, api, f) ==
    LET worldPoint == applyMatrix4(pt, m)
        waveHeight == getWaveHeight(api, f, worldPoint[1], worldPoint[3])
        depth == waveHeight - worldPoint[2]
    IN  IF depth < 0 THEN 0
        ELSE QuoT(depth * ((st.displacement * 98 * 20) \div 2000), 100)

\* The magnitude of calculateBuoyancyForce for one point: 0 above water,
\* else depth * (displacement / 1000) * 9.8 * hullIntegrity.
calculateBuoyancyForce(pt, m, st, dmg, api, f) ==
    LET worldPoint == applyMatrix4(pt, m)
        waveHeight == getWaveHeight(api, f, worldPoint[1], worldPoint[3])
        depth == waveHeight - worldPoint[2]
    IN  IF depth < 0 THEN 0
        ELSE QuoT(depth * ((st.displacement * 98 * dmg.hullIntegrity) \div 2000), 100)

\* One point's share of totalBuoyancyForce and totalTorque: for the upward
\* force and relPos = worldPoint - shipPos, <<force, torque x, torque z>>
\* with torque = relPos x (0, force, 0).
pointTotals(force, relPos) ==
    << force,
       -QuoT(relPos[3] * QuoT(force, 10), 1000),
       QuoT(relPos[1] * QuoT(force, 10), 1000) >>

\* c[lo] + ... + c[hi] (integer addition: the order does not matter)
RECURSIVE SumTotals(_, _, _)
SumTotals(c, lo, hi) ==
    IF lo > hi THEN << 0, 0, 0 >>
    ELSE IF lo = hi THEN c[lo]
    ELSE Add3(SumTotals(c, lo, (lo + hi) \div 2),
              SumTotals(c, (lo + hi) \div 2 + 1, hi))

\* <<total buoyancy force (upward), torque x, torque z>> over the points,
\* for the ship matrix m.
sumBuoyancy(pts, m, st, dmg, api, f) ==
    SumTotals([ k \in 1..Len(pts) |->
                  pointTotals(calculateBuoyancyForce(pts[k], m, st, dmg, api, f),
                              Sub3(applyMatrix4(pts[k], m), m.position)) ],
              1, Len(pts))

BuoyancyTotals(ps, pos, st, dmg, api, f) ==
    sumBuoyancy(ps.buoyancyPoints, shipMatrix(ps.shipRotation, pos), st, dmg, api, f)

\* headwindFactor * baseDrag capped at 0.99, scaled by S.
finalDrag(angle) ==
    LET headwindFactor == IF 2 * angle < Pi
                          THEN 9800 + QuoT(400 * (Pi - 2 * angle), Pi)
                          ELSE 9800
    IN  Min((95 * headwindFactor) \div 100, 9900)

\* The rudder block without the rudder damage factor.
rudderUndamaged(rot, st, dmg, ctl, dt) ==
    LET rotationSpeed == 15 * st.maneuverability * dt
    IN  IF ctl.right THEN rot - rotationSpeed
        ELSE IF ctl.left THEN rot + rotationSpeed
        ELSE rot

\* The shipRotation values of the updates the rudder block queues, in the
\* order of the setPhysicsState calls: the left turn's, then the right
\* turn's, each computed from the rendered shipRotation.
rudderQueue(rot, st, dmg, ctl, dt) ==
    LET rotationSpeed == 15 * st.maneuverability * dt
        turn == (rotationSpeed * dmg.rudderIntegrity) \div 20
    IN  (IF ctl.left THEN << rot + turn >> ELSE << >>)
          \o (IF ctl.right THEN << rot - turn >> ELSE << >>)

\* A rudder block whose updates are computed from the state they are applied
\* to: a left and a right turn cancel.
rudderFromQueuedState(rot, st, dmg, ctl, dt) ==
    LET rotationSpeed == 15 * st.maneuverability * dt
        turn == (rotationSpeed * dmg.rudderIntegrity) \div 20
    IN  rot + (IF ctl.left THEN turn ELSE 0) - (IF ctl.right THEN turn ELSE 0)

\* heading after the rudder block: the queued updates are applied in order,
\* each replacing shipRotation, so the last one queued stays.
rudder(rot, st, dmg, ctl, dt) ==
    LET queue == rudderQueue(rot, st, dmg, ctl, dt)
    IN  IF Len(queue) = 0 THEN rot ELSE queue[Len(queue)]

\* thrustAndDrag with the backward thrust scaled by the point of sail and the
\* sail efficiency, as the forward thrust is.
thrustAndDragSailingAstern(v, rot, st, dmg, ctl, wind, dt) ==
    LET forwardDir == << -Sin(rot), 0, -Cos(rot) >>
        angle == getAngleBetweenWindAndShip(rot, wind.direction)
        pointOfSail == getPointOfSailMultiplier(angle)
        sailEfficiency == dmg.sailIntegrity * dmg.mastIntegrity
        windVector == windDirectionToVector(wind.direction)
        finalAcceleration ==
            (st.speed * dt * pointOfSail * sailEfficiency * 3) \div 8000
        dot == QuoT(windVector[1] * forwardDir[1] + windVector[3] * forwardDir[3], S)
        windDrift == << windVector[1] - QuoT(forwardDir[1] * dot, S), 0,
                        windVector[3] - QuoT(forwardDir[3] * dot, S) >>
        drift == (wind.speedKnots * pointOfSail * sailEfficiency * 45)
                     \div (10000 * st.cargoCapacity)
        back == (st.speed * dt * 3 * pointOfSail * sailEfficiency) \div 40000
        ax == (IF ctl.forward
               THEN QuoT(forwardDir[1] * finalAcceleration, S) + QuoT(windDrift[1] * drift, S)
               ELSE 0)
              - (IF ctl.backward THEN QuoT(forwardDir[1] * back, S) ELSE 0)
        az == (IF ctl.forward
               THEN QuoT(forwardDir[3] * finalAcceleration, S) + QuoT(windDrift[3] * drift, S)
               ELSE 0)
              - (IF ctl.backward THEN QuoT(forwardDir[3] * back, S) ELSE 0)
        d == finalDrag(angle)
    IN  << QuoT((v[1] + ax) * d, S), QuoT(v[2] * d, S), QuoT((v[3] + az) * d, S) >>

\* The velocity after thrust, drift, backward thrust and drag.
thrustAndDrag(v, rot, st, dmg, ctl, wind, dt) ==
    LET forwardDir == << -Sin(rot), 0, -Cos(rot) >>
        angle == getAngleBetweenWindAndShip(rot, wind.direction)
        pointOfSail == getPointOfSailMultiplier(angle)
        sailEfficiency == dmg.sailIntegrity * dmg.mastIntegrity
        windVector == windDirectionToVector(wind.direction)
        finalAcceleration ==
            (st.speed * dt * pointOfSail * sailEfficiency * 3) \div 8000
        dot == QuoT(windVector[1] * forwardDir[1] + windVector[3] * forwardDir[3], S)
        windDrift == << windVector[1] - QuoT(forwardDir[1] * dot, S), 0,
                        windVector[3] - QuoT(forwardDir[3] * dot, S) >>
        drift == (wind.speedKnots * pointOfSail * sailEfficiency * 45)
                     \div (10000 * st.cargoCapacity)
        back == (st.speed * dt * 3) \div 10
        ax == (IF ctl.forward
               THEN QuoT(forwardDir[1] * finalAcceleration, S) + QuoT(windDrift[1] * drift, S)
               ELSE 0)
              - (IF ctl.backward THEN QuoT(forwardDir[1] * back, S) ELSE 0)
        az == (IF ctl.forward
               THEN QuoT(forwardDir[3] * finalAcceleration, S) + QuoT(windDrift[3] * drift, S)
               ELSE 0)
              - (IF ctl.backward THEN QuoT(forwardDir[3] * back, S) ELSE 0)
        d == finalDrag(angle)
    IN  << QuoT((v[1] + ax) * d, S), QuoT(v[2] * d, S), QuoT((v[3] + az) * d, S) >>

\* maxSpeed computed with the optimal multiplier whatever the wind angle.
maxSpeedOptimal(st, angle) == st.speed * (20 + 10) * 15

\* maxSpeed for the stats and the wind angle, scaled by S.
maxSpeed(st, angle) == st.speed * (20 + getPointOfSailMultiplier(angle)) * 15

\* A tick without the horizontal speed cap.
capSpeedAbsent(v, cap) == v

\* The horizontal speed cap: x and z rescaled to maxSpeed, y kept.
capSpeed(v, cap) ==
    LET len2 == v[1] * v[1] + v[3] * v[3]
        len == ISqrt(len2)
    IN  IF len2 > cap * cap
        THEN << QuoT(v[1] * cap, len), v[2], QuoT(v[3] * cap, len) >>
        ELSE v

\* newVelocity after the buoyancy force b (times 0.01 * delta) and gravity.
applyBuoyancy(v, b, dt) ==
    << v[1], v[2] + QuoT(QuoT(b[1], 100) * dt, 1000) - dt \div 2, v[3] >>

\* newAngularVelocity after the torque of b (times 0.0005 * delta) and the
\* angular drag.
applyTorque(w, b, dt) ==
    << QuoT((w[1] + QuoT(QuoT(b[2], 100) * dt, 20000)) * 95, 100),
       QuoT(w[2] * 95, 100),
       QuoT((w[3] + QuoT(QuoT(b[3], 100) * dt, 20000)) * 95, 100) >>

\* What the tick leaves behind: the queued physicsState updates, the moved
\* shipRef.position and the hull's sink depth.
tickResult(newVelocity, newAngularVelocity, newRotation, pos, dmg) ==
    [ velocity |-> newVelocity,
      angularVelocity |-> newAngularVelocity,
      shipRotation |-> newRotation,
      position |-> Add3(pos, newVelocity),
      hullY |-> -((20 - dmg.hullIntegrity) * 200) ]

\* The tick for the buoyancy totals b.
integrate(ps, pos, st, dmg, ctl, wind, dt, angle, b) ==
    tickResult(capSpeed(applyBuoyancy(thrustAndDrag(ps.velocity, ps.shipRotation,
                                                     st, dmg, ctl, wind, dt),
                                       b, dt),
                        maxSpeed(st, angle)),
               applyTorque(ps.angularVelocity, b, dt),
               rudder(ps.shipRotation, st, dmg, ctl, dt),
               pos, dmg)

\* The body of the Ship's useFrame past the stabilization block: the new
\* velocity, angular velocity, heading, position and hull offset.
shipPhysics(ps, pos, st, dmg, ctl, wind, api, f, dt) ==
    integrate(ps, pos, st, dmg, ctl, wind, dt,
              getAngleBetweenWindAndShip(ps.shipRotation, wind.direction),
              BuoyancyTotals(ps, pos, st, dmg, api, f))

-----------------------------------------------------------------------------
(* The state after the first commit *)

\* What a render of Ship binds from useWindStore().
WindSnapshot(dir, s, knots) ==
    [ direction |-> dir, strength |-> s, speedKnots |-> knots ]

\* useFrame subscribes in a layout effect and the frame loop calls the
\* subscribers in subscription order.  The layout effects of one commit run
\* children before parents, siblings in JSX order: <Ocean>, then <Ship>, then
\* GameWorld itself.  (WindEffect subscribes too; its callback moves only
\* its own particles.)
subscribers == << "Ocean", "Ship", "GameWorld" >>

InitBase ==
    \* initialState of the wind store
    /\ direction = 0
    /\ strength = "ModerateBreeze"
    /\ speedKnots = getWindSpeed("ModerateBreeze")
    /\ fluctuation = 200
    \* App's useState defaults, useControls' initial state
    /\ isStormActive = FALSE
    /\ shipDamage = createDefaultShipDamage
    /\ selectedShip = "Frigate"
    /\ controls = [ forward |-> FALSE, backward |-> FALSE, left |-> FALSE,
                    right |-> FALSE ]
    /\ effectsDone = FALSE
    \* Ocean's first render
    /\ oceanApi = FALSE
    /\ oceanClosure = OceanRender(0, "ModerateBreeze", getWindSpeed("ModerateBreeze"), FALSE)
    /\ waveField = EmptyField
    /\ frameIdx = 0
    /\ delta = 0
    /\ now = 0
    /\ frames = 0
    /\ frameLog = << >>
    \* Ship's first render; GameWorld passes position [0, 1, 0]
    /\ shipWind = WindSnapshot(0, "ModerateBreeze", getWindSpeed("ModerateBreeze"))
    /\ physicsState = InitialPhysicsState
    /\ isInitialized = FALSE
    /\ initializationTime = 0
    /\ shipPos = << 0, S, 0 >>
    /\ hullY = 0
    /\ shipTick = "none"
    /\ rand = << >>
    /\ lastOp = "init"
    /\ steps = 0

\* no pure function has been applied on its own
NoProbe == [ fn |-> "none" ]

InitCommon == InitBase /\ probe = NoProbe

-----------------------------------------------------------------------------
(* The wind store on its own: any caller, any arguments *)

DirectionArgs == { 0, 100000, -100000, TwoPi + 5 }
FluctuationArgs == { 0, 200, 1000, 1500, -500 }
DeltaArgs == { 0, 16, 600 }
GateDraws == { 0, 990 }
DirectionDraws == { 0, 500, 900 }
StrengthGateDraws == { 0, 500 }
StepDraws == { 100, 500, 900 }
PickDraws == { 0, 600, 999 }
FluctuationDraws == { 0, 500 }

StoreCall(op) ==
    /\ steps < MaxWindOps
    /\ steps' = steps + 1
    /\ lastOp' = op
    /\ UNCHANGED <<appVars, effectsDone, oceanVars, frameVars, shipVars, probe>>

CallSetDirection ==
    \E d \in DirectionArgs :
        /\ StoreCall("setDirection")
        /\ setDirection(d)
        /\ rand' = << >>

CallSetStrength ==
    \E s \in WindStrength :
        /\ StoreCall("setStrength")
        /\ setStrength(s)
        /\ rand' = << >>

CallSetFluctuation ==
    \E f \in FluctuationArgs :
        /\ StoreCall("setFluctuation")
        /\ setFluctuation(f)
        /\ rand' = << >>

CallUpdateWind ==
    \E dt \in DeltaArgs, g \in GateDraws, d \in DirectionDraws,
       sg \in StrengthGateDraws, st \in StepDraws, pk \in PickDraws :
        /\ StoreCall("updateWind")
        /\ updateWind(dt, g, d, sg, st, pk)

CallRandomizeWind ==
    \E d \in DirectionDraws, pk \in PickDraws, pk2 \in PickDraws,
       f \in FluctuationDraws :
        /\ StoreCall("randomizeWind")
        /\ randomizeWind(d, pk, pk2, f)

NextWind ==
    \/ CallSetDirection
    \/ CallSetStrength
    \/ CallSetFluctuation
    \/ CallUpdateWind
    \/ CallRandomizeWind

SpecWind == InitCommon /\ [][NextWind]_vars

-----------------------------------------------------------------------------
(* The running application: mount, frames, UI events *)

\* R3F's clock deltas (ms) of a frame: two slow frames.
FrameDeltas == { 300, 600 }
\* Math.random() results of the calls made while the application runs
FrameGateDraws == { 0, 990 }
FrameDirectionDraws == { 0 }
FrameStrengthGateDraws == { 0 }
FrameStepDraws == { 100 }
FramePickDraws == { 999 }
MountDirectionDraws == { 250 }
MountPickDraws == { 0 }
MountSpeedPickDraws == { 999 }
MountFluctuationDraws == { 500 }
\* slider values (twentieths) and keys of the UI events explored
DamageTypes == { "hull", "sail", "mast", "rudder" }
DamageArgs == { 10 }
Keys == { "KeyW", "KeyS", "KeyA", "KeyD" }
\* the classes picked in the ship selector
ShipSelectArgs == { "Sloop", "WarGalleon" }

\* A store or App state change re-renders Ship before the next frame; its
\* useFrame callback then closes over the store's new values.
ShipRerender == shipWind' = WindSnapshot(direction', strength', speedKnots')

\* Ship's buoyancy effect (deps stats.length, stats.width) for the class c.
initBuoyancyPoints(c) ==
    physicsState' = [ physicsState EXCEPT
                        !.buoyancyPoints = buoyancyPointsFor(SHIP_STATS[c]) ]

\* The passive effects of the first commit: Ocean registers
\* scene.userData.ocean, Ship lays out its buoyancy points, GameWorld calls
\* randomizeWind().
MountEffects ==
    \E d \in MountDirectionDraws, pk \in MountPickDraws, pk2 \in MountSpeedPickDraws,
       f \in MountFluctuationDraws :
        /\ ~effectsDone
        /\ frameIdx = 0
        /\ effectsDone' = TRUE
        /\ oceanApi' = TRUE
        /\ initBuoyancyPoints(selectedShip)
        /\ randomizeWind(d, pk, pk2, f)
        /\ ShipRerender
        /\ lastOp' = "MountEffects"
        /\ UNCHANGED <<appVars, oceanClosure, waveField, frameVars, isInitialized,
                       initializationTime, shipPos, hullY, shipTick, steps, probe>>

\* The frame loop takes a frame: the clock advances by dt.  (The first
\* commit's passive effects are flushed before the first animation frame.)
BeginFrame ==
    \E dt \in FrameDeltas :
        /\ effectsDone
        /\ frameIdx = 0
        /\ frames < MaxFrames
        /\ frameIdx' = 1
        /\ delta' = dt
        /\ now' = now + dt
        /\ frames' = frames + 1
        /\ frameLog' = << >>
        /\ rand' = << >>
        /\ lastOp' = "BeginFrame"
        /\ UNCHANGED <<windVars, appVars, effectsDone, oceanVars, shipVars, steps,
                       probe>>

\* The subscriber whose callback the loop calls next, and the loop's position
\* after it.
current == IF frameIdx = 0 THEN "none" ELSE subscribers[frameIdx]
Advance(name) ==
    /\ current = name
    /\ frameIdx' = IF frameIdx = Len(subscribers) THEN 0 ELSE frameIdx + 1
    /\ frameLog' = Append(frameLog, name)
    /\ UNCHANGED <<delta, now, frames>>

\* Ocean's useFrame callback: updateWaveHeightMap.current(delta).
OceanFrame ==
    /\ Advance("Ocean")
    /\ waveField' = updateWaveHeightMap(oceanClosure, now)
    /\ rand' = << >>
    /\ lastOp' = "OceanFrame"
    /\ UNCHANGED <<windVars, appVars, effectsDone, oceanApi, oceanClosure, shipVars,
                   steps, probe>>

\* The guard at the top of Ship's useFrame: nothing runs before the
\* buoyancy points are laid out.
shipIdle(ps) == Len(ps.buoyancyPoints) = 0

\* A stabilization block without its early return.
stabilizingNoReturn(init, api) == FALSE

\* A stabilization block that does not look for the ocean API.
stabilizingWithoutOcean(init, api) == ~init

\* The stabilization block returns early: not yet initialized and the ocean
\* API is registered.
stabilizing(init, api) == ~init /\ api

\* A settling that ends with the first tick.
settlingOverAtOnce(elapsed) == elapsed > 0

\* initializationTimeRef.current > 0.5, for the accumulated delta in ms
settlingOver(elapsed) == elapsed > 500

\* value || 0 for a sample
OrZero(r) == IF r = << >> THEN 0 ELSE r[1]

\* The position the stabilization block sets: the water height at the ship
\* less 0.3 * stats.draft / 10.
settledPosition(pos, st, f) ==
    LET waterHeight == OrZero(oceanGetWaveHeight(f, pos[1], pos[3]))
    IN  << pos[1], waterHeight - 30 * st.draft, pos[3] >>

\* Ship's useFrame callback.  The state updates it queues (setIsInitialized,
\* setPhysicsState) are rendered before the next frame, whose callback closes
\* over the new values.
ShipFrame ==
    /\ Advance("Ship")
    /\ rand' = << >>
    /\ lastOp' = "ShipFrame"
    /\ UNCHANGED <<windVars, appVars, effectsDone, oceanVars, shipWind, steps, probe>>
    /\ IF shipIdle(physicsState)
       THEN /\ shipTick' = "skipped"
            /\ UNCHANGED <<physicsState, isInitialized, initializationTime,
                           shipPos, hullY>>
       ELSE LET elapsed == IF isInitialized THEN initializationTime
                           ELSE initializationTime + delta
            IN  /\ initializationTime' = elapsed
                /\ IF stabilizing(isInitialized, oceanApi)
                   THEN /\ shipTick' = "settling"
                        /\ shipPos' = settledPosition(shipPos,
                                                      SHIP_STATS[selectedShip],
                                                      waveField)
                        /\ isInitialized' = settlingOver(elapsed)
                        /\ UNCHANGED <<physicsState, hullY>>
                   ELSE \E r \in { shipPhysics(physicsState, shipPos,
                                               SHIP_STATS[selectedShip], shipDamage,
                                               controls, shipWind, oceanApi,
                                               waveField, delta) } :
                            /\ shipTick' = "active"
                            /\ physicsState' =
                                 [ physicsState EXCEPT
                                     !.velocity = r.velocity,
                                     !.angularVelocity = r.angularVelocity,
                                     !.shipRotation = r.shipRotation ]
                            /\ shipPos' = r.position
                            /\ hullY' = r.hullY
                            /\ UNCHANGED isInitialized

\* GameWorld's useFrame callback: updateWind(delta).  (The ship tracking and
\* camera code after it reads the ship and writes only the camera.)
GameWorldFrame ==
    \E g \in FrameGateDraws, d \in FrameDirectionDraws,
       sg \in FrameStrengthGateDraws, st \in FrameStepDraws, pk \in FramePickDraws :
        /\ Advance("GameWorld")
        /\ updateWind(delta, g, d, sg, st, pk)
        /\ ShipRerender
        /\ lastOp' = "GameWorldFrame"
        /\ UNCHANGED <<appVars, effectsDone, oceanVars, physicsState, isInitialized,
                       initializationTime, shipPos, hullY, shipTick, steps, probe>>

\* A UI event or timer callback: handled between frames, once the first
\* commit's effects have run.
UiEvent(op) ==
    /\ effectsDone
    /\ frameIdx = 0
    /\ steps < MaxUiOps
    /\ steps' = steps + 1
    /\ lastOp' = op
    /\ UNCHANGED <<effectsDone, frameVars, probe>>

\* WeatherControl.handleWeatherToggle -> App.handleWeatherChange.  Ocean
\* re-renders with the new isStorm prop and registers its API again; the
\* function held by the updateWaveHeightMap ref is not replaced.
handleWeatherChange(isStorm, windStrength) ==
    /\ isStormActive' = isStorm
    /\ strength' = windStrength
    /\ speedKnots' = getWindSpeed(windStrength)
    /\ fluctuation' = IF isStorm THEN 400 ELSE 200
    /\ UNCHANGED direction

WeatherToggle ==
    LET newStormState == ~isStormActive
        windStrength == IF newStormState THEN "Storm" ELSE "ModerateBreeze"
    IN  /\ UiEvent("WeatherToggle")
        /\ handleWeatherChange(newStormState, windStrength)
        /\ ShipRerender
        /\ rand' = << >>
        /\ UNCHANGED <<shipDamage, selectedShip, controls, oceanVars, physicsState,
                       isInitialized, initializationTime, shipPos, hullY, shipTick>>

\* App.handleDamageUpdate(type, value)
handleDamageUpdate(type, value) ==
    shipDamage' =
        CASE type = "hull" -> [ shipDamage EXCEPT !.hullIntegrity = value ]
          [] type = "sail" -> [ shipDamage EXCEPT !.sailIntegrity = value ]
          [] type = "mast" -> [ shipDamage EXCEPT !.mastIntegrity = value ]
          [] type = "rudder" -> [ shipDamage EXCEPT !.rudderIntegrity = value ]
          [] OTHER -> shipDamage

DamageUpdate ==
    \E type \in DamageTypes, value \in DamageArgs :
        /\ UiEvent("DamageUpdate")
        /\ handleDamageUpdate(type, value)
        /\ rand' = << >>
        /\ UNCHANGED <<windVars, isStormActive, selectedShip, controls, oceanVars,
                       shipVars>>

\* A ship selection that mounts a new Ship (as a key on the class would).
handleShipSelectRemount(shipClass) ==
    /\ selectedShip' = shipClass
    /\ physicsState' = [ InitialPhysicsState EXCEPT
                           !.buoyancyPoints = buoyancyPointsFor(SHIP_STATS[shipClass]) ]
    /\ isInitialized' = FALSE
    /\ initializationTime' = 0
    /\ shipPos' = << 0, S, 0 >>
    /\ hullY' = 0
    /\ shipTick' = "none"

\* App.handleShipSelect(shipClass): Ship stays mounted, its stats change and
\* the buoyancy effect lays the points out again.
handleShipSelect(shipClass) ==
    /\ selectedShip' = shipClass
    /\ initBuoyancyPoints(shipClass)
    /\ UNCHANGED <<isInitialized, initializationTime, shipPos, hullY, shipTick>>

ShipSelect ==
    \E shipClass \in ShipSelectArgs :
        /\ UiEvent("ShipSelect")
        /\ handleShipSelect(shipClass)
        /\ rand' = << >>
        /\ UNCHANGED <<windVars, isStormActive, shipDamage, controls, oceanVars,
                       shipWind>>

\* whether the key is held
held(key) ==
    CASE key = "KeyW" -> controls.forward
      [] key = "KeyS" -> controls.backward
      [] key = "KeyA" -> controls.left
      [] key = "KeyD" -> controls.right

\* useControls.setKey(key, pressed)
setKey(key, pressed) ==
    controls' =
        CASE key = "KeyW" -> [ controls EXCEPT !.forward = pressed ]
          [] key = "KeyS" -> [ controls EXCEPT !.backward = pressed ]
          [] key = "KeyA" -> [ controls EXCEPT !.left = pressed ]
          [] key = "KeyD" -> [ controls EXCEPT !.right = pressed ]
          [] OTHER -> controls

SetKey ==
    \E key \in Keys :
        /\ UiEvent("SetKey")
        \* keydown for a key that is up, keyup for a key that is down
        /\ setKey(key, ~held(key))
        /\ rand' = << >>
        /\ UNCHANGED <<windVars, isStormActive, shipDamage, selectedShip, oceanVars,
                       shipVars>>

\* GameWorld's weatherChangeInterval callback with a draw below 0.05.
WeatherInterval ==
    \E d \in MountDirectionDraws, pk \in MountPickDraws, pk2 \in MountSpeedPickDraws,
       f \in MountFluctuationDraws :
        /\ UiEvent("WeatherInterval")
        /\ randomizeWind(d, pk, pk2, f)
        /\ ShipRerender
        /\ UNCHANGED <<appVars, oceanVars, physicsState, isInitialized,
                       initializationTime, shipPos, hullY, shipTick>>

Init == InitCommon

Next ==
    \/ MountEffects
    \/ BeginFrame
    \/ OceanFrame
    \/ ShipFrame
    \/ GameWorldFrame
    \/ WeatherToggle
    \/ DamageUpdate
    \/ ShipSelect
    \/ SetKey
    \/ WeatherInterval

Spec == Init /\ [][Next]_vars

-----------------------------------------------------------------------------
(* The frame loop on its own, without UI events: requestAnimationFrame keeps
   taking frames and every frame calls its three subscribers *)

NextFrames ==
    \/ MountEffects
    \/ BeginFrame
    \/ OceanFrame
    \/ ShipFrame
    \/ GameWorldFrame

\* A step of NextFrames as the loop's position shows it: the first commit's
\* effects run, or a frame is taken (while the frame bound allows), or the
\* loop calls its next subscriber.  Every step of NextFrames is such a step,
\* and one is possible exactly when a step of NextFrames is.
FrameAdvance ==
    \/ /\ ~effectsDone
       /\ frameIdx = 0
       /\ effectsDone' = TRUE
       /\ frameIdx' = frameIdx
    \/ /\ effectsDone
       /\ frameIdx = 0
       /\ frames < MaxFrames
       /\ frameIdx' = 1
       /\ effectsDone' = effectsDone
    \/ /\ frameIdx # 0
       /\ frameIdx' = IF frameIdx = Len(subscribers) THEN 0 ELSE frameIdx + 1
       /\ effectsDone' = effectsDone

\* requestAnimationFrame keeps taking frames and the loop calls every
\* subscriber of a frame it took.
SpecFrames == Init /\ [][NextFrames]_vars /\ WF_<<effectsDone, frameIdx>>(FrameAdvance)

-----------------------------------------------------------------------------
(* Pure functions applied on their own *)

HeadingArgs ==
    { -(Pi + 10000), -Pi, -100000, 0, 100000, Pi, TwoPi, TwoPi + 100000, 3 * Pi }
WindDirectionArgs == { -5000, 0, 100000, Pi, Pi + 10000, TwoPi - 1 }
\* world coordinates (1e-4 units): inside, on the edges of and far outside
\* the field's [-50, 50) extent
CoordArgs ==
    { -10000000, -500001, -500000, -25000, -1, 0, 24999, 499999, 500000, 10000000 }
TickTimes == { 0, 300, 1000 }

ProbeArgs ==
    { [ fn |-> "none", shipHeading |-> h, windDirection |-> w, x |-> x, z |-> z,
        api |-> a ] :
        h \in HeadingArgs, w \in WindDirectionArgs, x \in CoordArgs, z \in CoordArgs,
        a \in BOOLEAN }

InitPure == InitBase /\ probe \in ProbeArgs

PureStep(op) ==
    /\ lastOp' = op
    /\ rand' = << >>
    /\ UNCHANGED <<windVars, appVars, effectsDone, oceanApi, oceanClosure, frameVars,
                   shipVars, steps>>

\* Ocean's per-frame call at the time t.
TickField ==
    \E t \in TickTimes :
        /\ probe.fn = "none"
        /\ ~waveField.ticked
        /\ PureStep("TickField")
        /\ waveField' = updateWaveHeightMap(oceanClosure, t)
        /\ UNCHANGED probe

\* getAngleBetweenWindAndShip(shipHeading, windDirection)
ApplyAngle ==
    /\ probe.fn = "none"
    /\ PureStep("ApplyAngle")
    /\ probe' = [ fn |-> "getAngleBetweenWindAndShip",
                  shipHeading |-> probe.shipHeading,
                  windDirection |-> probe.windDirection,
                  result |-> getAngleBetweenWindAndShip(probe.shipHeading,
                                                        probe.windDirection) ]
    /\ UNCHANGED waveField

\* scene.userData.ocean.getWaveHeight(x, z)
ApplyGetWaveHeight ==
    /\ probe.fn = "none"
    /\ PureStep("ApplyGetWaveHeight")
    /\ probe' = [ fn |-> "getWaveHeight", x |-> probe.x, z |-> probe.z,
                  index |-> GridIndex(probe.x, probe.z),
                  result |-> oceanGetWaveHeight(waveField, probe.x, probe.z) ]
    /\ UNCHANGED waveField

\* Ship's getWaveHeight(x, z), with scene.userData.ocean registered or not
ApplyShipGetWaveHeight ==
    /\ probe.fn = "none"
    /\ PureStep("ApplyShipGetWaveHeight")
    /\ probe' = [ fn |-> "Ship.getWaveHeight", api |-> probe.api,
                  x |-> probe.x, z |-> probe.z,
                  result |-> getWaveHeight(probe.api, waveField, probe.x, probe.z) ]
    /\ UNCHANGED waveField

NextPure ==
    \/ TickField
    \/ ApplyAngle
    \/ ApplyGetWaveHeight
    \/ ApplyShipGetWaveHeight

SpecPure == InitPure /\ [][NextPure]_vars

-----------------------------------------------------------------------------
(* The Active ship on its own: a settled ship on a filled wave field, with
   the class, the damage, the held keys, the heading and the frame delta
   drawn at the start, ticked by the body of its useFrame callback.  Beside
   it runs the same ship undamaged, under the same inputs. *)

MaxShipTicks == 12

ScenarioClasses == { "Sloop", "Frigate" }
\* wind direction 0; headings of 0, 90 and 120 degrees
ScenarioHeadings == { 0, 157079, 209439 }
ScenarioDeltas == { 16, 300 }
ScenarioStrengths == { "ModerateBreeze", "Gale" }
\* the default damage, and one component at 0.5 or at 0
ScenarioDamages ==
    { createDefaultShipDamage }
    \cup { [ createDefaultShipDamage EXCEPT ![c] = v ] :
             c \in { "hullIntegrity", "sailIntegrity", "mastIntegrity",
                     "rudderIntegrity" },
             v \in { 10, 0 } }
NoKeys == [ forward |-> FALSE, backward |-> FALSE, left |-> FALSE, right |-> FALSE ]
ScenarioControls ==
    { NoKeys, [ NoKeys EXCEPT !.left = TRUE, !.right = TRUE ] }
    \cup { [ NoKeys EXCEPT ![k] = TRUE ] :
             k \in { "forward", "backward", "left", "right" } }

\* The undamaged ship beside the ship under test.
Undamaged(ps, pos) == [ fn |-> "undamaged", physicsState |-> ps, position |-> pos ]

InitShip ==
    /\ direction = 0
    /\ strength \in ScenarioStrengths
    /\ speedKnots = getWindSpeed(strength)
    /\ fluctuation = 0
    /\ isStormActive = FALSE
    /\ shipDamage \in ScenarioDamages
    /\ selectedShip \in ScenarioClasses
    /\ controls \in ScenarioControls
    /\ effectsDone = TRUE
    /\ oceanApi = TRUE
    /\ oceanClosure = OceanRender(direction, strength, speedKnots, FALSE)
    /\ waveField = updateWaveHeightMap(oceanClosure, 600)
    /\ frameIdx = 0
    /\ delta \in ScenarioDeltas
    /\ now = 600
    /\ frames = 0
    /\ frameLog = << >>
    /\ shipWind = WindSnapshot(direction, strength, speedKnots)
    /\ \E h \in ScenarioHeadings :
         physicsState = [ InitialPhysicsState EXCEPT
                            !.buoyancyPoints = buoyancyPointsFor(SHIP_STATS[selectedShip]),
                            !.shipRotation = h ]
    /\ isInitialized = TRUE
    /\ initializationTime = 600
    /\ shipPos = settledPosition(<< 0, S, 0 >>, SHIP_STATS[selectedShip], waveField)
    /\ hullY = 0
    /\ shipTick = "settling"
    /\ rand = << >>
    /\ lastOp = "init"
    /\ steps = 0
    /\ probe = Undamaged(physicsState, shipPos)

\* Ship's useFrame callback on the Active ship, and the same callback on the
\* undamaged ship.
ActiveTick ==
    /\ frames < MaxShipTicks
    /\ ~shipIdle(physicsState)
    /\ ~stabilizing(isInitialized, oceanApi)
    /\ frames' = frames + 1
    /\ now' = now + delta
    /\ lastOp' = "ShipFrame"
    /\ shipTick' = "active"
    /\ \E r \in { shipPhysics(physicsState, shipPos, SHIP_STATS[selectedShip],
                              shipDamage, controls, shipWind, oceanApi,
                              waveField, delta) } :
         /\ physicsState' = [ physicsState EXCEPT
                                !.velocity = r.velocity,
                                !.angularVelocity = r.angularVelocity,
                                !.shipRotation = r.shipRotation ]
         /\ shipPos' = r.position
         /\ hullY' = r.hullY
    /\ \E u \in { shipPhysics(probe.physicsState, probe.position,
                              SHIP_STATS[selectedShip], createDefaultShipDamage,
                              controls, shipWind, oceanApi, waveField, delta) } :
         probe' = Undamaged([ probe.physicsState EXCEPT
                                !.velocity = u.velocity,
                                !.angularVelocity = u.angularVelocity,
                                !.shipRotation = u.shipRotation ],
                            u.position)
    /\ UNCHANGED <<windVars, appVars, effectsDone, oceanVars, frameIdx, delta,
                   frameLog, shipWind, isInitialized, initializationTime,
                   rand, steps>>

NextShip == ActiveTick

SpecShip == InitShip /\ [][NextShip]_vars

-----------------------------------------------------------------------------
(* The wave grid on its own: a cell drawn at the start, the field filled by
   Ocean's per-frame call, then sampled at the world coordinates that call
   used for the cell *)

InitGrid ==
    /\ InitBase
    /\ probe \in { [ fn |-> "none", x |-> i, z |-> j ] :
                     i \in 0..(WAVE_RESOLUTION - 1), j \in 0..(WAVE_RESOLUTION - 1) }

\* scene.userData.ocean.getWaveHeight(worldX, worldZ) for the worldX, worldZ
\* updateWaveHeightMap computes for the cell (x, z)
ApplySampleCell ==
    /\ probe.fn = "none"
    /\ PureStep("ApplySampleCell")
    /\ probe' = [ fn |-> "sampleCell", x |-> probe.x, z |-> probe.z,
                  worldX |-> cellToWorld(probe.x),
                  worldZ |-> cellToWorld(probe.z),
                  index |-> GridIndex(cellToWorld(probe.x), cellToWorld(probe.z)),
                  result |-> oceanGetWaveHeight(waveField, cellToWorld(probe.x),
                                                cellToWorld(probe.z)) ]
    /\ UNCHANGED waveField

NextGrid ==
    \/ TickField
    \/ ApplySampleCell

SpecGrid == InitGrid /\ [][NextGrid]_vars

-----------------------------------------------------------------------------
(* A new ship in a scene whose ocean has not registered its API: the buoyancy
   points are laid out, scene.userData.ocean is absent until Ocean's effect
   runs *)

InitAdrift ==
    /\ direction = 0
    /\ strength = "ModerateBreeze"
    /\ speedKnots = getWindSpeed(strength)
    /\ fluctuation = 0
    /\ isStormActive = FALSE
    /\ shipDamage = createDefaultShipDamage
    /\ selectedShip \in ScenarioClasses
    /\ controls \in ScenarioControls
    /\ effectsDone = FALSE
    /\ oceanApi = FALSE
    /\ oceanClosure = OceanRender(direction, strength, speedKnots, FALSE)
    /\ waveField = EmptyField
    /\ frameIdx = 0
    /\ delta \in ScenarioDeltas
    /\ now = 0
    /\ frames = 0
    /\ frameLog = << >>
    /\ shipWind = WindSnapshot(direction, strength, speedKnots)
    /\ physicsState = [ InitialPhysicsState EXCEPT
                          !.buoyancyPoints = buoyancyPointsFor(SHIP_STATS[selectedShip]) ]
    /\ isInitialized = FALSE
    /\ initializationTime = 0
    /\ shipPos = << 0, S, 0 >>
    /\ hullY = 0
    /\ shipTick = "none"
    /\ rand = << >>
    /\ lastOp = "init"
    /\ steps = 0
    /\ probe = [ fn |-> "none" ]

\* Ocean's effect: scene.userData.ocean is created and getWaveHeight set on it.
OceanRegisters ==
    /\ ~oceanApi
    /\ oceanApi' = TRUE
    /\ effectsDone' = TRUE
    /\ lastOp' = "OceanRegisters"
    /\ UNCHANGED <<windVars, appVars, oceanClosure, waveField, frameVars, shipVars,
                   rand, steps, probe>>

\* Ship's useFrame callback, called once per frame with the frame's delta.
AdriftTick ==
    /\ frames < MaxShipTicks
    /\ ~shipIdle(physicsState)
    /\ frames' = frames + 1
    /\ now' = now + delta
    /\ lastOp' = "AdriftTick"
    /\ UNCHANGED <<windVars, appVars, effectsDone, oceanVars, frameIdx, delta,
                   frameLog, shipWind, rand, steps, probe>>
    /\ \E elapsed \in { IF isInitialized THEN initializationTime
                        ELSE initializationTime + delta } :
         /\ initializationTime' = elapsed
         /\ IF stabilizing(isInitialized, oceanApi)
            THEN /\ shipTick' = "settling"
                 /\ shipPos' = settledPosition(shipPos, SHIP_STATS[selectedShip],
                                               waveField)
                 /\ isInitialized' = settlingOver(elapsed)
                 /\ UNCHANGED <<physicsState, hullY>>
            ELSE \E r \in { shipPhysics(physicsState, shipPos,
                                        SHIP_STATS[selectedShip], shipDamage,
                                        controls, shipWind, oceanApi,
                                        waveField, delta) } :
                     /\ shipTick' = "active"
                     /\ physicsState' =
                          [ physicsState EXCEPT
                              !.velocity = r.velocity,
                              !.angularVelocity = r.angularVelocity,
                              !.shipRotation = r.shipRotation ]
                     /\ shipPos' = r.position
                     /\ hullY' = r.hullY
                     /\ UNCHANGED isInitialized

NextAdrift ==
    \/ OceanRegisters
    \/ AdriftTick

SpecAdrift == InitAdrift /\ [][NextAdrift]_vars

-----------------------------------------------------------------------------
(* The ship's two functions of the wind angle and Ocean's two functions of
   the wind category on their own: the arguments drawn at the start, one of
   the functions applied to them *)

\* every 10 degrees from 0 to 180, and the angles next to each (1e-5 rad)
AngleArgs ==
    { a \in { (d * 10 * Pi) \div 180 + e : d \in 0..18, e \in { -1, 0, 1 } } :
        0 <= a /\ a <= Pi }

\* the arguments of Ocean's two functions of the wind category
WaveArgs ==
    { [ fn |-> "none", strength |-> s, isStorm |-> b ] :
        s \in WindStrength, b \in BOOLEAN }

InitSail ==
    /\ InitBase
    /\ probe \in { [ fn |-> "none", angle |-> a ] : a \in AngleArgs } \cup WaveArgs

\* getPointOfSailMultiplier(angleBetweenWindAndShip)
ApplyPointOfSail ==
    /\ probe.fn = "none"
    /\ "angle" \in DOMAIN probe
    /\ PureStep("ApplyPointOfSail")
    /\ probe' = [ fn |-> "getPointOfSailMultiplier", angle |-> probe.angle,
                  result |-> getPointOfSailMultiplier(probe.angle) ]
    /\ UNCHANGED waveField

\* The factor the tick's drag step multiplies the velocity by.
ApplyFinalDrag ==
    /\ probe.fn = "none"
    /\ "angle" \in DOMAIN probe
    /\ PureStep("ApplyFinalDrag")
    /\ probe' = [ fn |-> "finalDrag", angle |-> probe.angle,
                  result |-> finalDrag(probe.angle) ]
    /\ UNCHANGED waveField

\* getWaveScale(strength, isStorm)
ApplyWaveScale ==
    /\ probe.fn = "none"
    /\ "strength" \in DOMAIN probe
    /\ PureStep("ApplyWaveScale")
    /\ probe' = [ fn |-> "getWaveScale", strength |-> probe.strength,
                  isStorm |-> probe.isStorm,
                  result |-> getWaveScale(probe.strength, probe.isStorm) ]
    /\ UNCHANGED waveField

\* getMaxWaveHeight(strength, isStorm)
ApplyMaxWaveHeight ==
    /\ probe.fn = "none"
    /\ "strength" \in DOMAIN probe
    /\ PureStep("ApplyMaxWaveHeight")
    /\ probe' = [ fn |-> "getMaxWaveHeight", strength |-> probe.strength,
                  isStorm |-> probe.isStorm,
                  result |-> getMaxWaveHeight(probe.strength, probe.isStorm) ]
    /\ UNCHANGED waveField

NextSail ==
    \/ ApplyPointOfSail
    \/ ApplyFinalDrag
    \/ ApplyWaveScale
    \/ ApplyMaxWaveHeight

SpecSail == InitSail /\ [][NextSail]_vars

-----------------------------------------------------------------------------
(* The sail trim on its own: heading and wind direction fixed, the sail at 0
   or where an earlier heading's adjustment left it, the interval callback
   running every 100 ms *)

\* wind direction 0; headings of 20 to 170 degrees, one or two in each band
\* of calculateOptimalSailAngle
TrimHeadings == { (d * Pi) \div 180 : d \in { 20, 45, 75, 100, 135, 170 } }
TrimStarts ==
    { 0 } \cup { settledSailAngle(0, calculateOptimalSailAngle(h)) : h \in TrimHeadings }

\* The optimal angle the effect computed for the rendered heading and wind.
trimTarget ==
    calculateOptimalSailAngle(
        getAngleBetweenWindAndShip(physicsState.shipRotation, shipWind.direction))

InitTrim ==
    /\ direction = 0
    /\ strength = "ModerateBreeze"
    /\ speedKnots = getWindSpeed("ModerateBreeze")
    /\ fluctuation = 0
    /\ isStormActive = FALSE
    /\ shipDamage = createDefaultShipDamage
    /\ selectedShip \in ScenarioClasses
    /\ controls = NoKeys
    /\ effectsDone = TRUE
    /\ oceanApi = TRUE
    /\ oceanClosure = OceanRender(0, "ModerateBreeze", getWindSpeed("ModerateBreeze"), FALSE)
    /\ waveField = EmptyField
    /\ frameIdx = 0
    /\ delta = 0
    /\ now = 0
    /\ frames = 0
    /\ frameLog = << >>
    /\ shipWind = WindSnapshot(0, "ModerateBreeze", getWindSpeed("ModerateBreeze"))
    /\ \E h \in TrimHeadings, a \in TrimStarts :
         physicsState = [ InitialPhysicsState EXCEPT
                            !.buoyancyPoints = buoyancyPointsFor(SHIP_STATS[selectedShip]),
                            !.shipRotation = h,
                            !.sailAngle = a,
                            !.previousSailAngle = a ]
    /\ isInitialized = FALSE
    /\ initializationTime = 0
    /\ shipPos = << 0, S, 0 >>
    /\ hullY = 0
    /\ shipTick = "none"
    /\ rand = << >>
    /\ lastOp = "init"
    /\ steps = 0
    /\ probe = NoProbe

\* The adjustSailInterval callback.  When its update returns the same state
\* nothing changes.
AdjustSail ==
    /\ physicsState' = adjustSail(physicsState, trimTarget)
    /\ physicsState' # physicsState
    /\ lastOp' = "adjustSail"
    /\ UNCHANGED <<windVars, appVars, effectsDone, oceanVars, frameVars, shipWind,
                   isInitialized, initializationTime, shipPos, hullY, shipTick,
                   rand, steps, probe>>

NextTrim == AdjustSail

\* setInterval keeps calling the callback every 100 ms.
SpecTrim == InitTrim /\ [][NextTrim]_vars /\ WF_vars(AdjustSail)

-----------------------------------------------------------------------------
(* Claims about the wind store, checked under SpecWind *)

\* C1: in every reachable wind state, after any sequence of setStrength,
\* setDirection, setFluctuation, updateWind and randomizeWind calls,
\* speedKnots is getWindSpeed of the current strength.
C1_SpeedIsCanonical == speedKnots = getWindSpeed(strength)

\* C5: an updateWind call that perturbs the direction, taken from a stored
\* direction already in [0, 2 pi) and for either sign of the perturbation,
\* leaves the stored direction in [0, 2 pi).
C5_DirectionWrapped ==
    [][ (lastOp' = "updateWind" /\ Len(rand') >= 3
         /\ 0 <= direction /\ direction < TwoPi)
          => (0 <= direction' /\ direction' < TwoPi) ]_vars

\* C7: in updateWind's strength step a "one category down" draw (below 0.35)
\* taken at Calm leaves the strength at Calm, and a "one category up" draw
\* (from 0.35 to below 0.7) taken at Hurricane leaves it at Hurricane.
C7_StepClamped ==
    [][ (lastOp' = "updateWind" /\ Len(rand') >= 4)
          => /\ (strength = "Calm" /\ rand'[4] < 350) => strength' = "Calm"
             /\ (strength = "Hurricane" /\ rand'[4] >= 350 /\ rand'[4] < 700)
                   => strength' = "Hurricane" ]_vars

\* C12: the wind fluctuation is clamped into [0, 1] before use: an updateWind
\* whose gate fired perturbs the direction by randomInRange(-0.05, 0.05) times
\* the clamped fluctuation, and the gate can fire only when the clamped
\* fluctuation is positive, whatever value setFluctuation was given.
C12_FluctuationClampedBeforeUse ==
    [][ (lastOp' = "updateWind" /\ Len(rand') >= 2)
          => LET clamped == Max(0, Min(1000, fluctuation))
                 change == QuoT(randomInRange(rand'[2], -5000, 5000) * clamped, 1000)
             IN  /\ clamped > 0
                 /\ direction' = JsMod(direction + change, TwoPi) ]_vars

\* C21: updateWind changes strength and speedKnots only in a call that
\* passed the direction gate; a call whose gate failed, and in particular
\* every call with fluctuation * delta * 0.5 <= 0, leaves direction, strength,
\* speedKnots and fluctuation unchanged; no call changes fluctuation.
\* (rand' holds the draws the call consumed; a draw it did not consume does
\* not enter its result.)
C21_AdvanceGated ==
    [][ lastOp' = "updateWind"
          => /\ (strength' # strength \/ speedKnots' # speedKnots) => Len(rand') >= 2
             /\ Len(rand') = 1 => UNCHANGED windVars
             /\ fluctuation' = fluctuation
             /\ LET draw(i) == IF i <= Len(rand') THEN rand'[i] ELSE 0
                IN  \A dt \in { t \in DeltaArgs : fluctuation * t <= 0 } :
                      updateWind(dt, draw(1), draw(2), draw(3), draw(4), draw(5))
                        => UNCHANGED windVars ]_vars

\* C21 witness: the first call on the store is an updateWind that passed both
\* gates and stepped the strength, the speed following it.
C21_Witness ==
    /\ lastOp = "updateWind"
    /\ steps = 1
    /\ Len(rand) >= 4
    /\ strength # "ModerateBreeze"
    /\ speedKnots = getWindSpeed(strength)
    /\ fluctuation = 200

-----------------------------------------------------------------------------
(* Claims about the frame loop, the wave field and the ship, checked under Spec *)

\* C2: within every frame the wind advance (GameWorld's updateWind) runs
\* first: no frame runs the ocean recompute or the ship update before that
\* frame's wind advance.
C2_WindAdvanceFirst ==
    \A i \in 1..Len(frameLog) :
        frameLog[i] \in { "Ocean", "Ship" }
            => \E j \in 1..(i - 1) : frameLog[j] = "GameWorld"

\* C3: every wave field tick computes the cell heights from the wind
\* direction, the wind speed and the strength-derived maxWaveHeight that are
\* current at that tick.
C3_TickUsesCurrentWind ==
    lastOp = "OceanFrame"
        => /\ waveField.direction = direction
           /\ waveField.speedKnots = speedKnots
           /\ waveField.maxWaveHeight = getMaxWaveHeight(strength, isStormActive)

\* C4: every wave field tick uses the storm flag's current value: the storm
\* terms and the storm height multiplier apply exactly when the flag is
\* currently true.
C4_TickUsesCurrentStormFlag ==
    lastOp = "OceanFrame" => waveField.isStorm = isStormActive

\* C8: a tick of a ship that is settling (not yet initialized) leaves the
\* velocity, the angular velocity and the rest of the physics state
\* unchanged and only sets the ship's height from the sampled wave height;
\* the first tick after the tick on which settling completed runs the
\* velocity integration.
C8_SettlingThenIntegration ==
    [][ (lastOp' = "ShipFrame" /\ ~shipIdle(physicsState))
          => /\ ~isInitialized
                  => /\ shipTick' = "settling"
                     /\ physicsState' = physicsState
                     /\ hullY' = hullY
                     /\ shipPos'[1] = shipPos[1]
                     /\ shipPos'[3] = shipPos[3]
                     /\ shipPos'[2] =
                          OrZero(ReadCell(waveField, GridIndex(shipPos[1], shipPos[3])))
                          - 30 * SHIP_STATS[selectedShip].draft
             /\ (isInitialized /\ shipTick = "settling")
                  => /\ shipTick' = "active"
                     /\ \A r \in { shipPhysics(physicsState, shipPos,
                                               SHIP_STATS[selectedShip], shipDamage,
                                               controls, shipWind, oceanApi,
                                               waveField, delta) } :
                            /\ physicsState'.velocity = r.velocity
                            /\ shipPos' = r.position ]_vars

\* C8 witness: the first integration tick has just run after a settling that
\* took more than 0.5 s of accumulated delta, and it changed the velocity.
C8_Witness ==
    /\ lastOp = "ShipFrame"
    /\ shipTick = "active"
    /\ initializationTime > 500
    /\ physicsState.velocity # << 0, 0, 0 >>

\* C9: Active is terminal.  Once isInitialized is true no tick, control input,
\* damage change, wind or storm change or ship class change makes it false
\* again, and every tick of an initialized ship runs the full physics
\* integration.
C9_ActiveIsTerminal ==
    [][ /\ isInitialized => isInitialized'
        /\ (isInitialized /\ lastOp' = "ShipFrame")
             => /\ shipTick' = "active"
                /\ \A r \in { shipPhysics(physicsState, shipPos,
                                          SHIP_STATS[selectedShip], shipDamage,
                                          controls, shipWind, oceanApi,
                                          waveField, delta) } :
                       /\ physicsState'.velocity = r.velocity
                       /\ physicsState'.angularVelocity = r.angularVelocity
                       /\ physicsState'.shipRotation = r.shipRotation
                       /\ shipPos' = r.position
                       /\ hullY' = r.hullY ]_vars

\* C9 witness: an Active ship whose class has just been changed is still
\* Active.
C9_Witness ==
    /\ lastOp = "ShipSelect"
    /\ shipTick = "active"
    /\ selectedShip # "Frigate"
    /\ isInitialized

-----------------------------------------------------------------------------
(* Claims about pure functions, checked under SpecPure *)

\* C6: for every ship heading and wind direction, negative headings and
\* headings beyond 2 pi included, getAngleBetweenWindAndShip returns a value
\* in [0, pi].
C6_AngleInRange ==
    probe.fn = "getAngleBetweenWindAndShip"
        => (0 <= probe.result /\ probe.result <= Pi)

\* C10: for every world coordinate (x, z), far outside the field's extent
\* included, getWaveHeight computes a grid index in [0, 40 * 40 - 1] and
\* returns the value stored in that cell (never undefined).
C10_SampleInsideGrid ==
    probe.fn = "getWaveHeight"
        => /\ probe.index \in 0..(WAVE_RESOLUTION * WAVE_RESOLUTION - 1)
           /\ probe.result =
                << IF waveField.ticked
                   THEN CellHeight(probe.index % WAVE_RESOLUTION,
                                   probe.index \div WAVE_RESOLUTION, waveField)
                   ELSE 0 >>

\* C10 witness: a sample far outside the extent on both axes, of a field that
\* has been filled, returned a non-zero stored height.
C10_Witness ==
    /\ probe.fn = "getWaveHeight"
    /\ waveField.ticked
    /\ probe.x > 50 * S
    /\ probe.z < -(50 * S)
    /\ probe.result # << 0 >>

\* C11: a height query made before the wave field is initialized returns
\* zero: without the ocean API the ship's getWaveHeight returns 0, and while
\* no tick has filled the field every cell reads 0, through the API and
\* through the ship's getWaveHeight.
C11_ZeroBeforeInit ==
    /\ (probe.fn = "Ship.getWaveHeight" /\ (~probe.api \/ ~waveField.ticked))
          => probe.result = 0
    /\ (probe.fn = "getWaveHeight" /\ ~waveField.ticked)
          => probe.result = << 0 >>

\* C11 witness: the ship asked without the ocean API, at a point whose cell
\* of the filled field is not zero, and got 0.
C11_Witness ==
    /\ probe.fn = "Ship.getWaveHeight"
    /\ ~probe.api
    /\ waveField.ticked
    /\ oceanGetWaveHeight(waveField, probe.x, probe.z) # << 0 >>
    /\ probe.result = 0

-----------------------------------------------------------------------------
(* Claims about the Active ship, checked under SpecShip *)

\* C13: with forward held at the optimal point of sail, the undamaged ship's
\* terminal horizontal speed (the speed a tick no longer changes) is
\* strictly higher than that of the same ship with exactly one damage
\* component (hull, sail, mast or rudder) reduced to 0.5.
C13_DamageLowersTerminalSpeed ==
    [][ ( /\ lastOp' = "ShipFrame"
          /\ controls.forward
          /\ getPointOfSailMultiplier(
                 getAngleBetweenWindAndShip(physicsState.shipRotation,
                                            shipWind.direction)) = 10
          /\ \E c \in DOMAIN shipDamage :
                 shipDamage = [ createDefaultShipDamage EXCEPT ![c] = 10 ]
          /\ physicsState'.velocity[1] = physicsState.velocity[1]
          /\ physicsState'.velocity[3] = physicsState.velocity[3]
          /\ probe'.physicsState.velocity[1] = probe.physicsState.velocity[1]
          /\ probe'.physicsState.velocity[3] = probe.physicsState.velocity[3] )
        => ( probe'.physicsState.velocity[1] * probe'.physicsState.velocity[1]
             + probe'.physicsState.velocity[3] * probe'.physicsState.velocity[3]
             > physicsState'.velocity[1] * physicsState'.velocity[1]
               + physicsState'.velocity[3] * physicsState'.velocity[3] ) ]_vars

\* C14: with hullIntegrity 0 the buoyant force at every buoyancy point is
\* exactly zero, so the total force and the total torque are zero; and the
\* sink depth the tick gives the hull at integrity 0 is strictly greater than
\* the one it gives at integrity 1.
C14_NoHullNoBuoyancy ==
    shipDamage.hullIntegrity = 0
      => /\ \A k \in DOMAIN physicsState.buoyancyPoints :
              calculateBuoyancyForce(physicsState.buoyancyPoints[k],
                                     shipMatrix(physicsState.shipRotation, shipPos),
                                     SHIP_STATS[selectedShip], shipDamage,
                                     oceanApi, waveField) = 0
         /\ BuoyancyTotals(physicsState, shipPos, SHIP_STATS[selectedShip],
                           shipDamage, oceanApi, waveField) = << 0, 0, 0 >>
         /\ shipTick = "active"
              => -hullY > -(tickResult(physicsState.velocity,
                                       physicsState.angularVelocity,
                                       physicsState.shipRotation, shipPos,
                                       createDefaultShipDamage).hullY)

\* C14 witness: a ship ticked with hullIntegrity 0 while points of it are
\* under water, where an intact hull is pushed up.
C14_Witness ==
    /\ shipDamage.hullIntegrity = 0
    /\ shipTick = "active"
    /\ hullY < 0
    /\ BuoyancyTotals(physicsState, shipPos, SHIP_STATS[selectedShip],
                      createDefaultShipDamage, oceanApi, waveField)[1] > 0

\* sqrt(vx^2 + vz^2) of a velocity, to the model's resolution.
HorizontalSpeed(v) == ISqrt(v[1] * v[1] + v[3] * v[3])

\* C15: after every Active tick the horizontal speed sqrt(vx^2 + vz^2) is at
\* most maxSpeed = (stats.speed / 10) * (1 + 0.5 * pointOfSailMultiplier) * 0.3
\* for the heading and wind the tick ran with, and the cap leaves the
\* vertical velocity as the buoyancy and gravity step computed it.
C15_SpeedCapped ==
    [][ (lastOp' = "ShipFrame" /\ shipTick' = "active")
          => /\ HorizontalSpeed(physicsState'.velocity)
                  <= maxSpeed(SHIP_STATS[selectedShip],
                              getAngleBetweenWindAndShip(physicsState.shipRotation,
                                                         shipWind.direction))
             /\ physicsState'.velocity[2]
                  = applyBuoyancy(thrustAndDrag(physicsState.velocity,
                                                physicsState.shipRotation,
                                                SHIP_STATS[selectedShip], shipDamage,
                                                controls, shipWind, delta),
                                  BuoyancyTotals(physicsState, shipPos,
                                                 SHIP_STATS[selectedShip], shipDamage,
                                                 oceanApi, waveField),
                                  delta)[2] ]_vars

\* C15 witness: a ship under sail ticked to the cap, with a vertical velocity
\* of its own.
C15_Witness ==
    /\ shipTick = "active"
    /\ controls.forward
    /\ HorizontalSpeed(physicsState.velocity)
         >= maxSpeed(SHIP_STATS[selectedShip],
                     getAngleBetweenWindAndShip(physicsState.shipRotation,
                                                shipWind.direction)) - 1
    /\ physicsState.velocity[2] # 0

\* Wind direction 0 at ModerateBreeze without a storm, heading pi / 2,
\* forward alone held, every integrity 1.
BeamReachScenario ==
    /\ shipWind = WindSnapshot(0, "ModerateBreeze", getWindSpeed("ModerateBreeze"))
    /\ ~isStormActive
    /\ physicsState.shipRotation = 157079
    /\ controls = [ NoKeys EXCEPT !.forward = TRUE ]
    /\ shipDamage = createDefaultShipDamage

\* C16: with wind direction 0, ModerateBreeze, no storm, heading pi / 2,
\* forward held and every integrity 1, after any N >= 1 Active ticks of a
\* fixed positive delta the horizontal speed is strictly positive and at most
\* the class's maximum speed scaled by the multiplier for 90 degrees (0.7).
C16_BeamReachSpeed ==
    (BeamReachScenario /\ frames >= 1 /\ shipTick = "active")
      => /\ physicsState.velocity[1] * physicsState.velocity[1]
              + physicsState.velocity[3] * physicsState.velocity[3] > 0
         /\ HorizontalSpeed(physicsState.velocity)
              <= SHIP_STATS[selectedShip].speed * (20 + 7) * 15

\* C16 witness: the scenario after several ticks, the ship moving along its
\* heading (toward -x) at the 90 degree cap.
C16_Witness ==
    /\ BeamReachScenario
    /\ frames >= 3
    /\ shipTick = "active"
    /\ physicsState.velocity[1] < 0
    /\ HorizontalSpeed(physicsState.velocity)
         >= SHIP_STATS[selectedShip].speed * (20 + 7) * 15 - 1

\* C17: a tick with exactly one turn input held changes the heading by
\* 1.5 * (maneuverability / 10) * rudderIntegrity * delta, added for left and
\* subtracted for right; with no turn input, or with rudderIntegrity 0, the
\* tick leaves the heading unchanged.  (Headings in 1e-5 rad, delta in ms,
\* integrity in twentieths.)
C17_TurnRate ==
    [][ (lastOp' = "ShipFrame" /\ shipTick' = "active")
          => LET turn == (15 * SHIP_STATS[selectedShip].maneuverability * delta
                            * shipDamage.rudderIntegrity) \div 20
                 change == physicsState'.shipRotation - physicsState.shipRotation
             IN  /\ (controls.left /\ ~controls.right) => change = turn
                 /\ (controls.right /\ ~controls.left) => change = -turn
                 /\ (~controls.left /\ ~controls.right) => change = 0
                 /\ shipDamage.rudderIntegrity = 0 => change = 0 ]_vars

\* C17 witness: left held with the rudder at 0.5: the ship has turned left,
\* and less than the undamaged ship beside it.
C17_Witness ==
    /\ shipTick = "active"
    /\ controls.left
    /\ ~controls.right
    /\ shipDamage.rudderIntegrity = 10
    /\ \E h \in ScenarioHeadings :
         /\ physicsState.shipRotation > h
         /\ probe.physicsState.shipRotation - h = 2 * (physicsState.shipRotation - h)

-----------------------------------------------------------------------------
(* Claims about the functions of the wind angle, checked under SpecSail *)

\* C18: the drag carries a headwind penalty: the factor the velocity is
\* multiplied by at a wind angle below 90 degrees is no larger than the
\* factor at any wind angle of 90 degrees or more.
C18_HeadwindPenalty ==
    (probe.fn = "finalDrag" /\ 2 * probe.angle < Pi)
      => \A b \in AngleArgs : 2 * b >= Pi => probe.result <= finalDrag(b)

\* C19: getPointOfSailMultiplier returns 1.0, its maximum, exactly for
\* angles in (90, 120] degrees, and a strictly smaller value elsewhere: 0.1
\* up to 30 degrees, 0.5 up to 60, 0.7 up to 90, 0.9 up to 150 and 0.6
\* beyond.  (Values in tenths.)
C19_PointOfSailTable ==
    probe.fn = "getPointOfSailMultiplier"
      => LET a == probe.angle * 180
         IN  /\ probe.result <= 10
             /\ probe.result = 10 <=> (a > 90 * Pi /\ a <= 120 * Pi)
             /\ a <= 30 * Pi => probe.result = 1
             /\ (a > 30 * Pi /\ a <= 60 * Pi) => probe.result = 5
             /\ (a > 60 * Pi /\ a <= 90 * Pi) => probe.result = 7
             /\ (a > 120 * Pi /\ a <= 150 * Pi) => probe.result = 9
             /\ a > 150 * Pi => probe.result = 6

\* C19 witness: the function applied to the last angle of the optimal band.
C19_Witness ==
    /\ probe.fn = "getPointOfSailMultiplier"
    /\ probe.angle = (120 * Pi) \div 180
    /\ probe.result = 10

\* C25: getWaveScale and getMaxWaveHeight map the 13 wind categories, in
\* severity order, to monotonically increasing values: no category's value
\* is below the previous category's (the scale repeats over pairs of
\* categories, the height rises at every step), from Calm's 0.2 scale and
\* 0.05 height to Hurricane's 5.0 and 7.0; with the storm flag on the result
\* is exactly 1.5 times the scale and 1.75 times the height of the category.
C25_WaveTables ==
    /\ probe.fn = "getWaveScale"
         => LET i == IndexOf(probe.strength)
            IN  /\ i > 0 => getWaveScale(strengths[i], probe.isStorm) <= probe.result
                /\ (probe.strength = "Calm" /\ ~probe.isStorm) => probe.result = 20
                /\ (probe.strength = "Hurricane" /\ ~probe.isStorm) => probe.result = 500
                /\ probe.isStorm
                     => probe.result * 10 = getWaveScale(probe.strength, FALSE) * 15
    /\ probe.fn = "getMaxWaveHeight"
         => LET i == IndexOf(probe.strength)
            IN  /\ i > 0 => getMaxWaveHeight(strengths[i], probe.isStorm) < probe.result
                /\ (probe.strength = "Calm" /\ ~probe.isStorm) => probe.result = 500
                /\ (probe.strength = "Hurricane" /\ ~probe.isStorm) => probe.result = 70000
                /\ probe.isStorm
                     => probe.result * 100 = getMaxWaveHeight(probe.strength, FALSE) * 175

\* C25 witness: getMaxWaveHeight applied to Hurricane in a storm: 12.25.
C25_Witness ==
    /\ probe.fn = "getMaxWaveHeight"
    /\ probe.strength = "Hurricane"
    /\ probe.isStorm
    /\ probe.result = 122500

-----------------------------------------------------------------------------
(* The backward thrust, checked under SpecShip *)

\* C20: with backward alone held, the tick's thrust is opposite to the
\* forward vector (-sin, 0, -cos of the heading) with magnitude
\* maxAcceleration * 0.2 * delta * 0.3 = 0.03 * stats.speed * delta, whatever
\* the wind direction and speed, the point of sail and the sail and mast
\* integrity: the new horizontal velocity is the old one plus that thrust,
\* after the tick's drag and speed cap.
C20_BackwardThrust ==
    [][ ( /\ lastOp' = "ShipFrame"
          /\ shipTick' = "active"
          /\ controls = [ NoKeys EXCEPT !.backward = TRUE ] )
        => LET magnitude == (SHIP_STATS[selectedShip].speed * delta * 3) \div 10
               rot == physicsState.shipRotation
               angle == getAngleBetweenWindAndShip(rot, shipWind.direction)
               v == physicsState.velocity
               pushed == << v[1] + QuoT(Sin(rot) * magnitude, S), 0,
                            v[3] + QuoT(Cos(rot) * magnitude, S) >>
               dragged == << QuoT(pushed[1] * finalDrag(angle), S), 0,
                             QuoT(pushed[3] * finalDrag(angle), S) >>
               capped == capSpeed(dragged, maxSpeed(SHIP_STATS[selectedShip], angle))
           IN  /\ physicsState'.velocity[1] = capped[1]
               /\ physicsState'.velocity[3] = capped[3] ]_vars

\* C20 witness: backward held on a ship without sails, heading 0 in a gale:
\* the ship moves astern (toward +z).
C20_Witness ==
    /\ shipTick = "active"
    /\ controls = [ NoKeys EXCEPT !.backward = TRUE ]
    /\ shipDamage.sailIntegrity = 0
    /\ shipWind.strength = "Gale"
    /\ physicsState.shipRotation = 0
    /\ physicsState.velocity[1] = 0
    /\ physicsState.velocity[3] > 0

\* C24: for every ship class of the stats table every divisor used when the
\* buoyancy points are laid out and during a tick (numPointsLength - 1,
\* numPointsWidth - 1, stats.length, stats.width, stats.cargoCapacity) is
\* non-zero; the ship's points are the grid those counts give.
C24_DivisorsNonZero ==
    /\ \A c \in ShipClass : \A i \in 1..5 : shipDivisors(SHIP_STATS[c])[i] # 0
    /\ Len(physicsState.buoyancyPoints)
         = (shipDivisors(SHIP_STATS[selectedShip])[1] + 1)
             * (shipDivisors(SHIP_STATS[selectedShip])[2] + 1)

\* C24 witness: a Sloop, whose width gives a single column before the floor
\* of two, laid out as 4 x 2 points and ticked under sail.
C24_Witness ==
    /\ selectedShip = "Sloop"
    /\ SHIP_STATS[selectedShip].width \div 30 = 1
    /\ Len(physicsState.buoyancyPoints) = 8
    /\ shipTick = "active"
    /\ controls.forward

-----------------------------------------------------------------------------
(* Claims about the wave field on its own, checked under SpecPure *)

\* C22: the heights a tick produces depend on the simulated time only, not
\* on when the tick is executed: the first tick of a field under wind
\* direction 0, ModerateBreeze and no storm leaves at the field's centre the
\* height that the same tick executed at any other instant leaves there.
C22_FieldIndependentOfExecutionTime ==
    waveField.ticked
      => \A t \in TickTimes :
           oceanGetWaveHeight(waveField, 0, 0)
             = oceanGetWaveHeight(updateWaveHeightMap(oceanClosure, t), 0, 0)

-----------------------------------------------------------------------------
(* Claims about the mounted application, checked under Spec *)

\* C23: the ship's buoyancy sample points are laid out once, the set is not
\* empty, and no later tick, key, damage change, wind change or ship-class
\* change alters it.
C23_BuoyancyPointsImmutable ==
    [][ Len(physicsState.buoyancyPoints) > 0
          => physicsState'.buoyancyPoints = physicsState.buoyancyPoints ]_vars

-----------------------------------------------------------------------------
(* The sail trim, checked under SpecTrim *)

\* C26: with heading and wind direction fixed, every sail adjustment step
\* moves the trim toward the optimal trim by 10% of the remaining distance,
\* without overshooting, and keeps it within [-1, 1]; a step whose change
\* would be 0.01 or less is skipped, so the trim eventually stops changing,
\* at a value within 0.1 of the optimal trim.  (Angles in 1e-6; the tenth
\* of the distance is truncated, so "within 0.1" is 100000 and up to 10 more.)
C26_TrimConverges ==
    /\ [][ lastOp' = "adjustSail"
             => LET remaining == trimTarget - physicsState.sailAngle
                    change == physicsState'.sailAngle - physicsState.sailAngle
                IN  /\ change = QuoT(remaining, 10)
                    /\ Abs(change) > 10000
                    /\ Abs(trimTarget - physicsState'.sailAngle) < Abs(remaining)
                    /\ remaining > 0 => trimTarget - physicsState'.sailAngle > 0
                    /\ remaining < 0 => trimTarget - physicsState'.sailAngle < 0
                    /\ physicsState'.sailAngle >= -1000000
                    /\ physicsState'.sailAngle <= 1000000 ]_vars
    /\ <>[]( /\ adjustSail(physicsState, trimTarget) = physicsState
             /\ Abs(trimTarget - physicsState.sailAngle) <= 100010 )

\* C26 witness: the adjustment has stopped short of an optimal trim of 0.8 it
\* was moving the sail to.
C26_Witness ==
    /\ lastOp = "adjustSail"
    /\ trimTarget = 800000
    /\ adjustSail(physicsState, trimTarget) = physicsState
    /\ physicsState.sailAngle # trimTarget
    /\ Abs(trimTarget - physicsState.sailAngle) > 50000

-----------------------------------------------------------------------------
(* The settling of a new ship, checked under SpecFrames *)

\* C27: with every frame's delta positive, the ocean API registered and the
\* buoyancy points laid out, a new ship eventually leaves Settling and
\* becomes Active; it becomes Active on a tick at which the accumulated delta
\* is strictly greater than 0.5 s, and not earlier.
C27_SettlingEnds ==
    /\ [][ (~isInitialized /\ isInitialized')
             => /\ lastOp' = "ShipFrame"
                /\ shipTick' = "settling"
                /\ initializationTime' > 500
                /\ initializationTime' = initializationTime + delta
                /\ delta > 0 ]_vars
    /\ [](isInitialized => initializationTime > 500)
    /\ <>isInitialized

\* C27 witness: the ship became Active on its second settling tick, the
\* first having accumulated 0.3 s only.
C27_Witness ==
    /\ isInitialized
    /\ shipTick = "settling"
    /\ frames = 2
    /\ initializationTime = 600

\* C28: when a ship that is not yet initialized ticks while the ocean API is
\* not registered, the tick does not return early: it runs the physics
\* integration with a wave height of 0 at every sample point, the velocity
\* and the position become the integration's, the position changes, a ship
\* at rest gains a velocity (at the model's resolution of 1e-4 a fall that
\* has reached its terminal speed keeps its velocity), and the ship is not
\* initialized afterwards; the ship is never initialized while the API is
\* absent.
C28_NoOceanNoSettling ==
    /\ [][ (lastOp' = "AdriftTick" /\ ~isInitialized /\ ~oceanApi)
             => /\ shipTick' = "active"
                /\ ~isInitialized'
                /\ initializationTime' = initializationTime + delta
                /\ shipPos' # shipPos
                /\ physicsState.velocity = << 0, 0, 0 >>
                     => physicsState'.velocity # physicsState.velocity
                /\ \A k \in 1..Len(physicsState.buoyancyPoints) :
                     LET w == applyMatrix4(physicsState.buoyancyPoints[k],
                                           shipMatrix(physicsState.shipRotation, shipPos))
                     IN  getWaveHeight(oceanApi, waveField, w[1], w[3]) = 0
                /\ \E r \in { shipPhysics(physicsState, shipPos,
                                           SHIP_STATS[selectedShip], shipDamage,
                                           controls, shipWind, FALSE, waveField,
                                           delta) } :
                     /\ shipPos' = r.position
                     /\ physicsState'.velocity = r.velocity ]_vars
    /\ [](~oceanApi => ~isInitialized)

\* Four ticks of 0.3 s without the ocean API: 1.2 s have accumulated, the
\* ship has fallen and is still not initialized.
C28_Witness ==
    /\ lastOp = "AdriftTick"
    /\ ~oceanApi
    /\ ~isInitialized
    /\ frames = 4
    /\ initializationTime = 1200
    /\ shipTick = "active"
    /\ physicsState.velocity[2] < 0
    /\ shipPos[2] < S


\* C29: in an Active tick with turn-left and turn-right both held, the two
\* queued heading updates do not cancel: both are computed from the heading
\* at the start of the tick and the later (right) one replaces the earlier,
\* so the heading after the tick is the start heading minus
\* rotationSpeed * rudderIntegrity, as after the right turn alone.
C29_BothKeysTurnRight ==
    [][ (lastOp' = "ShipFrame" /\ shipTick' = "active"
           /\ controls.left /\ controls.right)
          => LET st == SHIP_STATS[selectedShip]
                 turn == (15 * st.maneuverability * delta
                            * shipDamage.rudderIntegrity) \div 20
             IN  /\ rudderQueue(physicsState.shipRotation, st, shipDamage,
                                controls, delta)
                      = << physicsState.shipRotation + turn,
                           physicsState.shipRotation - turn >>
                 /\ physicsState'.shipRotation = physicsState.shipRotation - turn
                 /\ physicsState'.shipRotation
                      = rudder(physicsState.shipRotation, st, shipDamage,
                               [ controls EXCEPT !.left = FALSE ], delta)
                 /\ turn # 0 => physicsState'.shipRotation # physicsState.shipRotation
        ]_vars

\* C29 witness: an undamaged Sloop heading 90 degrees, both keys held, after
\* one tick of 0.3 s: the heading is 0.405 rad less.
C29_Witness ==
    /\ lastOp = "ShipFrame"
    /\ shipTick = "active"
    /\ controls.left /\ controls.right
    /\ selectedShip = "Sloop"
    /\ shipDamage = createDefaultShipDamage
    /\ delta = 300
    /\ frames = 1
    /\ physicsState.shipRotation = 157079 - 40500

\* C30: for every grid cell (x, z) with 0 <= x, z < 40, sampling at the world
\* coordinates the tick uses for the cell, ((x/40 - 0.5) * 100,
\* (z/40 - 0.5) * 100), reads the cell's own index and returns the value the
\* most recent tick stored in that cell (0 before the first tick): the
\* world-to-cell mapping inverts the cell-to-world mapping.  (In IEEE doubles
\* too: floor(((x/40 - 0.5) * 100 + 50) / 100 * 40) is x for x in 0..39.)
C30_SampleReadsOwnCell ==
    probe.fn = "sampleCell"
      => /\ probe.worldX = 25000 * probe.x - 500000
         /\ probe.worldZ = 25000 * probe.z - 500000
         /\ probe.index = probe.z * WAVE_RESOLUTION + probe.x
         /\ probe.result = ReadCell(waveField, probe.z * WAVE_RESOLUTION + probe.x)
         /\ probe.result = << IF waveField.ticked
                              THEN CellHeight(probe.x, probe.z, waveField)
                              ELSE 0 >>

\* C30 witness: the cell (39, 7) sampled at (47.5, -32.5) after a tick that
\* stored a height in it other than the one of the transposed cell (7, 39).
C30_Witness ==
    /\ probe.fn = "sampleCell"
    /\ waveField.ticked
    /\ probe.x = 39
    /\ probe.z = 7
    /\ probe.worldX = 475000
    /\ probe.worldZ = -325000
    /\ probe.result = << CellHeight(39, 7, waveField) >>
    /\ CellHeight(39, 7, waveField) # CellHeight(7, 39, waveField)

====
